---- MODULE Spec2Model ----
(***************************************************************************)
(* State-machine model of the dataset pipeline's incremental build         *)
(* scheduler (src/s3_degrade), of the alignment stage (src/s2_align) with  *)
(* its bounding-box remap, and of the restoration stages (src/s4_gfpgan,   *)
(* src/s4_codeformer).                                                     *)
(*                                                                         *)
(* The S3 stage is modelled step by step: one action per statement group   *)
(* of s3_degrade.stage.run, with the output directories, the temp files of *)
(* save_image_atomic and the manifest file as the persistent state.  A     *)
(* process crash and damage to an output file are environment actions.     *)
(***************************************************************************)
EXTENDS Integers, Sequences, FiniteSets, TLC

(***************************************************************************)
(* Bounds of the model.                                                    *)
(***************************************************************************)
\* Number of aligned images (the required ids of every preset).
MaxIds == 2
\* Number of environment faults (crashes and damaged output files) per behaviour.
MaxFaults == 1
\* Coordinates of the bounding-box model are counted in 1/SubPixel pixel.
SubPixel == 8

\* The significant bits of the floating-point numbers of the bounding-box
\* model (53 in the program's float64).
MantissaBits == 10
\* The S1 datasets hold up to MaxExtra images more than the least sample size.
MaxExtra == 1

(***************************************************************************)
(* Program constants.                                                      *)
(***************************************************************************)
\* s3_degrade/utils/io.py: os.path.getsize(path) < 1024 is invalid.
MIN_BYTES == 1024
\* s2_align/s2a.py: TARGET_SIZE = 256, the side of an aligned image.
TARGET_SIZE == 256
\* s1_data/stage.py: min_size = 100, the least sample size accepted.
min_size == 100

(***************************************************************************)
(* Inputs of a run: the aligned images, the partition CSV, the config.     *)
(***************************************************************************)
\* The aligned image ids; list_aligned_filenames returns them sorted.
Ids == 1 .. MaxIds

\* What a run meets for one id, fixed for the whole behaviour (the inputs of
\* the stage do not change between runs):
\*   "ok"      partition entry, loadable source, output of ordinary size
\*   "flat"    as ok, but the degraded JPEG encodes to fewer than MIN_BYTES
\*   "nopart"  no row in list_eval_partition.csv
\*   "noload"  load_image raises (undecodable aligned image)
\*   "nosave"  img.save raises (output path not writable)
Kinds == {"ok", "flat", "nopart", "noload", "nosave"}

\* config["data"]["degradations"]: the ordered preset list and output_size
\* (<<>> models None).  The second preset of "dup" names the directory the
\* first one gets by default; "bad" holds a preset of an unsupported type;
\* "sized" is one preset with a fixed output_size.
Configs ==
  [ plain |-> [presets |-> << [name |-> "blur", type |-> "gaussian_blur"] >>,
               output_size |-> << >>],
    sized |-> [presets |-> << [name |-> "jpeg", type |-> "jpeg"] >>,
               output_size |-> << 64 >>],
    noise |-> [presets |-> << [name |-> "noise", type |-> "gaussian_noise"],
                              [name |-> "jpeg", type |-> "jpeg"] >>,
               output_size |-> << 64 >>],
    dup   |-> [presets |-> << [type |-> "jpeg"],
                              [name |-> "preset_0", type |-> "gaussian_blur"] >>,
               output_size |-> << 64 >>],
    bad   |-> [presets |-> << [name |-> "bad", type |-> "sharpen"],
                              [name |-> "blur", type |-> "gaussian_blur"] >>,
               output_size |-> << >>] ]

ConfigNames == DOMAIN Configs

VARIABLES
  cfg,          \* the name of the config in use (input)
  kind,         \* kind[id]: what a run meets for that id (input)
  out,          \* out[<<dir, key>>]: the file at <lq_root>/<dir>/imgs/<key>
  manifest,     \* results/logs/s3_degrade_manifest.csv
  manifestTmp,  \* results/logs/s3_degrade_manifest.csv.tmp
  pc,           \* position of the running process, "idle" when none runs
  pidx,         \* preset_idx + 1
  to_build,     \* to_build of the current preset
  i,            \* index into filenames of the build loop
  img_lq,       \* the degraded image about to be saved
  all_rows,     \* all_rows
  rng,          \* draws made from np.random since _seed_all
  lastExit,     \* how the last process ended: "none", "ok", "error", "crash"
  faults,       \* environment faults so far
  tbLog,        \* to_build of each preset scanned in this run      (history)
  attempted,    \* <<pidx, id>> the loop body was entered for       (history)
  applied,      \* <<pidx, id>> apply_degradation was called for    (history)
  saved,        \* <<pidx, id>> save_image_atomic was called for    (history)
  written,      \* <<pidx, id>> whose output was renamed into place (history)
  snap,         \* out when this run started                        (history)
  snapManifest, \* manifest when this run started                   (history)
  prevClean,    \* previous run ended ok with every item built, nothing since
  dmg,          \* the one output damaged in a fully valid tree, or << >>
  produced,     \* every <<pidx, id, image>> apply_degradation returned
  bbox_in,      \* the arguments of a call of _transform_bbox
  bbox_out      \* what the call returned, << >> before it returns

inputVars == << cfg, kind >>
fsVars    == << out, manifest, manifestTmp >>
procVars  == << pc, pidx, to_build, i, img_lq, all_rows, rng >>
histVars  == << tbLog, attempted, applied, saved, written, snap, snapManifest,
                prevClean, dmg, produced >>
s3Vars    == << inputVars, fsVars, procVars, lastExit, faults, histVars >>
bboxVars  == << bbox_in, bbox_out >>

\* A call of estimate_similarity_transform (s2_align/s2a.py).
VARIABLES
  src_pts,      \* the source points of the call (the destination is CANONICAL_5PT)
  est_M         \* what the call returned, << >> before it returns

estVars   == << src_pts, est_M >>

\* The ingestion stage (s1_data).
VARIABLES
  data_n,       \* the number of image files under data/img_align_celeba (input)
  data_kind,    \* what the checks of the stage find in data/ (input)
  s1pc,         \* where the S1 process stands
  sample_size,  \* sample_size of the run; 0 stands for None
  selected,     \* the ids the run selected: all of them, or sampled_ids
  pruned_imgs,  \* the image files of the S1-pruned directory
  pruned_csv,   \* pruned_csv[f]: whether that CSV exists and the ids of its rows
  s1Exit        \* how the last S1 run ended

s1Vars    == << data_n, data_kind, s1pc, sample_size, selected, pruned_imgs, pruned_csv, s1Exit >>

\* The alignment stage (s2_align).
VARIABLES
  rec,          \* rec[id]: the raw record of that id in the S1-pruned dataset (input)
  raw_bbox,     \* raw_bbox[id]: its row of the S1-pruned list_bbox_celeba.csv (input)
  prunedMeta,   \* the metadata CSVs present in the S1-pruned directory   (input)
  rawDir,       \* the S1-pruned img_align_celeba directory exists        (input)
  s2meta,       \* the metadata CSVs present in the S2 output directory
  bboxCsv,      \* the rows of the S2 output list_bbox_celeba.csv, << >> if absent
  aligned,      \* the S2 output img_align_celeba directory: its complete
                \* images (imgs) and its partly written ones (part)
  s2pc,         \* position of the running S2 process, "idle" when none runs
  s2i,          \* index into raw_fnames (S2A) or df_bbox (S2B)
  df_bbox,      \* df_bbox of run_s2b
  s2Exit,       \* how the last S2 run ended: "none", "ok", "error",
                \* "structural", "crash"
  s2faults,     \* crashes of the S2 process so far
  estimated,    \* <<pass, id>> a transform was estimated for in this run (history)
  ranS2A,       \* run_s2a was invoked in this run                       (history)
  s2Snap,       \* the S2 output files when this run started, or << >>   (history)
  s2bRuns       \* run_s2b has written the bbox CSV: 0 never, 1 once, 2 more often (history)

s2Input == << rec, raw_bbox, prunedMeta, rawDir >>
s2Files == << s2meta, bboxCsv, aligned >>
s2Vars  == << s2Input, s2Files, s2pc, s2i, df_bbox, s2Exit, s2faults, estimated, ranS2A,
              s2Snap, s2bRuns >>

\* The restoration stages (s4_gfpgan, s4_codeformer).
VARIABLES
  cols,         \* the header of the S3 manifest CSV                     (input)
  fidelity_grid,\* config experiments.matrix.codeformer_fidelity_w      (input)
  s4kind,       \* s4kind[id]: what restoring that id meets             (input)
  restored,     \* restored[path]: the file at a path_restored
  s4man,        \* s4man[method]: the stage manifest of that method
  s4pc,         \* position of the running S4 process, "idle" when none runs
  method,       \* the stage run: "gfpgan" (S4A) or "codeformer" (S4B)   (input)
  df,           \* the rows read_manifest_csv returned
  g,            \* index into the groups of by_preset
  wi,           \* index into fidelity_grid (S4B)
  ri,           \* index into the rows of the group
  manifest_rows,\* manifest_rows
  s4Exit,       \* how the last S4 run ended: "none", "ok", "error", "crash"
  s4faults,     \* crashes of an S4 process so far
  inferred,     \* this run has called the model                        (history)
  rewrote,      \* this run has written a restored image                (history)
  s4prev        \* the run directly before this one ended ok

s4Input == << cols, fidelity_grid, s4kind, method >>
s4Files == << restored, s4man >>
s4Proc  == << s4pc, df, g, wi, ri, manifest_rows >>
s4Hist  == << inferred, rewrote, s4prev >>
s4Vars  == << s4Input, s4Files, s4Proc, s4Exit, s4faults, s4Hist >>

vars      == << s1Vars, s3Vars, bboxVars, estVars, s2Vars, s4Vars >>

(***************************************************************************)
(* Files.                                                                  *)
(***************************************************************************)
\* A directory entry <id> or <id>.tmp.
ImgKey(id) == [t |-> "img", id |-> id]
TmpKey(id) == [t |-> "tmp", id |-> id]
Keys == { ImgKey(id) : id \in Ids } \cup { TmpKey(id) : id \in Ids }

NoFile == [st |-> "none", deg |-> "", ver |-> 0, bytes |-> 0, size |-> << 0, 0 >>]

\* A file a writer was interrupted in, or that was truncated afterwards: the
\* first half of its bytes.  PIL cannot decode it fully.
Partial(f) == [f EXCEPT !.st = "part", !.bytes = f.bytes \div 2]

\* preset.get("name", f"preset_{preset_idx}")
PresetName(preset, idx) ==
  IF "name" \in DOMAIN preset THEN preset.name
  ELSE << "preset_0", "preset_1" >>[idx]

Presets == Configs[cfg].presets
OutputSize == Configs[cfg].output_size
\* expect_size = (output_size, output_size) if output_size is not None else None
ExpectSize == IF OutputSize = << >> THEN << >> ELSE << OutputSize[1], OutputSize[1] >>

DirsOf(c) == { PresetName(Configs[c].presets[p], p) : p \in DOMAIN Configs[c].presets }
Slots(c) == DirsOf(c) \X Keys

\* partition_map.get(image_id) is not None
HasPartition(id) == kind[id] # "nopart"


(***************************************************************************)
(* s3_degrade/utils/io.py                                                  *)
(***************************************************************************)
\* _is_valid_rgb(path, expect_size): a regular file of at least MIN_BYTES
\* bytes that PIL decodes fully, of positive size, of the expected size if
\* one is given.
IsValidRgb(f, expect_size) ==
  /\ f.st # "none"
  /\ ~ (f.bytes < MIN_BYTES)
  /\ f.st = "full"
  /\ ~ (f.size[1] <= 0 \/ f.size[2] <= 0)
  /\ ~ (expect_size # << >> /\ f.size # expect_size)

\* os.listdir(out_dir)
ListDir(dir) == { k \in Keys : out[<< dir, k >>].st # "none" }

\* list_valid_rgb_images(root, expect_size)
ListValidRgbImages(dir, expect_size) ==
  { k \in ListDir(dir) : IsValidRgb(out[<< dir, k >>], expect_size) }

\* verify_rgb_images_ok(paths, expect_size): counts the valid paths of a list
VerifyRgbImagesOk(paths, expect_size) ==
  Cardinality({ n \in DOMAIN paths : IsValidRgb(out[paths[n]], expect_size) })

(***************************************************************************)
(* s3_degrade/utils/degradations.py                                        *)
(***************************************************************************)
SupportedTypes == {"gaussian_blur", "jpeg", "gaussian_noise"}

\* The bytes the JPEG encoder makes of a degraded image: a flat image (say an
\* all-black aligned face) blurred or recompressed encodes to less than
\* MIN_BYTES; anything else, and anything with noise added, to more.
EncodedBytes(id, type) ==
  IF kind[id] = "flat" /\ type # "gaussian_noise" THEN MIN_BYTES - 1 ELSE 2 * MIN_BYTES

\* apply_degradation(img, preset, output_size) for a supported type: the
\* image saved later.  gaussian_noise draws from the global np.random
\* generator, so its result is the draw at the generator's position r.
\* The result is resized to output_size x output_size when that is set.
ApplyDegradation(id, preset, output_size, r) ==
  [ st    |-> "full",
    deg   |-> preset.type,
    ver   |-> IF preset.type = "gaussian_noise" THEN r + 1 ELSE 0,
    bytes |-> EncodedBytes(id, preset.type),
    size  |-> IF output_size # << >> THEN << output_size[1], output_size[1] >>
              ELSE << TARGET_SIZE, TARGET_SIZE >> ]

(***************************************************************************)
(* Initial state: fresh output tree, no manifest, no process.              *)
(***************************************************************************)
ProcIdle ==
  /\ pc' = "idle" /\ pidx' = 0 /\ to_build' = {} /\ i' = 0
  /\ img_lq' = NoFile /\ all_rows' = << >> /\ rng' = 0

HistIdle ==
  /\ tbLog' = << >> /\ attempted' = {} /\ applied' = {} /\ saved' = {}
  /\ written' = {} /\ snap' = << >> /\ snapManifest' = << >>

NoManifest == [st |-> "none", rows |-> << >>]

\* The output tree is empty, no manifest exists, no process runs.
S3Fresh ==
  /\ out = [s \in Slots(cfg) |-> NoFile]
  /\ manifest = NoManifest /\ manifestTmp = NoManifest
  /\ pc = "idle" /\ pidx = 0 /\ to_build = {} /\ i = 0
  /\ img_lq = NoFile /\ all_rows = << >> /\ rng = 0
  /\ lastExit = "none" /\ faults = 0
  /\ tbLog = << >> /\ attempted = {} /\ applied = {} /\ saved = {}
  /\ written = {} /\ snap = << >> /\ snapManifest = << >>
  /\ prevClean = FALSE /\ dmg = << >> /\ produced = {}

\* No call of _transform_bbox or estimate_similarity_transform is modelled.
BboxOff ==
  /\ bbox_in = << >> /\ bbox_out = << >>
  /\ src_pts = << >> /\ est_M = << >>

\* A CSV that does not exist.
NoCsv == [exists |-> FALSE, ids |-> {}]

\* The S1 stage is not run.
S1Off ==
  /\ data_n = min_size /\ data_kind = "ok"
  /\ s1pc = "idle" /\ sample_size = 0 /\ selected = {}
  /\ pruned_imgs = {} /\ pruned_csv = << >> /\ s1Exit = "none"

\* The four metadata CSVs, in the order _ensure_s2_metadata_mirror copies them.
MetaFiles == << "list_attr_celeba.csv", "list_eval_partition.csv",
                "list_landmarks_align_celeba.csv", "list_bbox_celeba.csv" >>
MetaSet == { MetaFiles[n] : n \in DOMAIN MetaFiles }

\* No S2 process is modelled: the stage has run before, every id is aligned
\* and the metadata is mirrored.
S2Off ==
  /\ rec = [id \in Ids |-> "good"]
  /\ raw_bbox = [id \in Ids |-> << 10, 20, 100, 120 >>]
  /\ prunedMeta = MetaSet /\ rawDir = TRUE
  /\ s2meta = MetaSet
  /\ bboxCsv = [id \in Ids |-> << 10, 20, 100, 120 >>]
  /\ aligned = [exists |-> TRUE, imgs |-> Ids, part |-> {}]
  /\ s2pc = "idle" /\ s2i = 0 /\ df_bbox = << >> /\ s2Exit = "none" /\ s2faults = 0
  /\ estimated = {} /\ ranS2A = FALSE /\ s2Snap = << >> /\ s2bRuns = 0

\* The columns an S3 manifest row has (stage.py line 189, the header).
RequiredCols == {"id", "path_gt", "path_deg", "degradation", "split"}

Methods == {"gfpgan", "codeformer"}

\* No S4 process is modelled; nothing was restored.
S4Off ==
  /\ cols = RequiredCols /\ fidelity_grid = << 5 >>
  /\ s4kind = [id \in Ids |-> "ok"]
  /\ restored = << >>
  /\ s4man = [m \in Methods |-> NoManifest]
  /\ s4pc = "idle" /\ method = "gfpgan" /\ df = << >> /\ g = 0 /\ wi = 0 /\ ri = 0
  /\ manifest_rows = << >> /\ s4Exit = "none" /\ s4faults = 0
  /\ inferred = FALSE /\ rewrote = FALSE /\ s4prev = FALSE

Init ==
  /\ S1Off
  /\ cfg \in ConfigNames
  /\ kind \in [Ids -> Kinds]
  /\ S3Fresh
  /\ BboxOff
  /\ S2Off
  /\ S4Off

(***************************************************************************)
(* s3_degrade/stage.py: run(config)                                        *)
(***************************************************************************)
CurPreset == Presets[pidx]
CurDir == PresetName(CurPreset, pidx)

\* Lines 40-105: the structural checks pass (the aligned directory, the
\* partition CSV and a non-empty preset list exist), the generators are
\* seeded, lq_root and logs_root are created, all_rows = [].
StartRun ==
  /\ pc = "idle"
  /\ pc' = "scan" /\ pidx' = 1 /\ rng' = 0 /\ all_rows' = << >>
  /\ tbLog' = << >> /\ attempted' = {} /\ applied' = {} /\ saved' = {}
  /\ written' = {} /\ snap' = out /\ snapManifest' = manifest
  /\ UNCHANGED << bboxVars, estVars, s1Vars, s2Vars, s4Vars, inputVars, fsVars, to_build, i, img_lq, lastExit, faults,
                  prevClean, dmg, produced >>

\* Lines 112-115: missing and corrupt of one output directory.
Missing(existing_files) == { ImgKey(id) : id \in { n \in Ids : ImgKey(n) \notin existing_files } }
Corrupt(existing_files, valid_now) == { k \in existing_files : k \notin valid_now }

\* Mutant of ToBuild: every required id is rebuilt, whatever the scan found.
ToBuildEverything(dir) == { ImgKey(id) : id \in Ids }

\* Line 122: to_build = set(missing) | set(corrupt)
ToBuild(dir) ==
  Missing(ListDir(dir)) \cup Corrupt(ListDir(dir), ListValidRgbImages(dir, ExpectSize))

\* Lines 107-126: the scan of one preset's output directory.
ScanPreset ==
  /\ pc = "scan"
  /\ to_build' = ToBuild(CurDir)
  /\ tbLog' = Append(tbLog, ToBuild(CurDir))
  /\ IF ToBuild(CurDir) = {} THEN pc' = "rescan" /\ i' = 0 ELSE pc' = "loop" /\ i' = 1
  /\ UNCHANGED << bboxVars, estVars, s1Vars, s2Vars, s4Vars, inputVars, fsVars, pidx, img_lq, all_rows, rng, lastExit, faults,
                  attempted, applied, saved, written, snap, snapManifest, prevClean, dmg, produced >>

\* Lines 131-133: an aligned file that is not in to_build is passed over.
LoopSkip ==
  /\ pc = "loop" /\ i <= MaxIds /\ ImgKey(i) \notin to_build
  /\ i' = i + 1
  /\ UNCHANGED << bboxVars, estVars, s1Vars, s2Vars, s4Vars, inputVars, fsVars, pc, pidx, to_build, img_lq, all_rows, rng,
                  lastExit, faults, histVars >>

\* Lines 139-144: no partition entry: continue.
LoopNoPartition ==
  /\ pc = "loop" /\ i <= MaxIds /\ ImgKey(i) \in to_build
  /\ ~ HasPartition(i)
  /\ i' = i + 1
  /\ attempted' = attempted \cup { << pidx, i >> }
  /\ UNCHANGED << bboxVars, estVars, s1Vars, s2Vars, s4Vars, inputVars, fsVars, pc, pidx, to_build, img_lq, all_rows, rng,
                  lastExit, faults, tbLog, applied, saved, written, snap, snapManifest, prevClean,
                  dmg, produced >>

\* Mutant of LoopLoadFail: the failure ends the build loop of the preset.
LoopLoadFailBreaks ==
  /\ pc = "loop" /\ i <= MaxIds /\ ImgKey(i) \in to_build
  /\ HasPartition(i) /\ kind[i] = "noload"
  /\ i' = MaxIds + 1
  /\ attempted' = attempted \cup { << pidx, i >> }
  /\ UNCHANGED << bboxVars, estVars, s1Vars, s2Vars, s4Vars, inputVars, fsVars, pc, pidx, to_build, img_lq, all_rows, rng,
                  lastExit, faults, tbLog, applied, saved, written, snap, snapManifest,
                  prevClean, dmg, produced >>

\* Lines 146-150: load_image raises: continue.
LoopLoadFail ==
  /\ pc = "loop" /\ i <= MaxIds /\ ImgKey(i) \in to_build
  /\ HasPartition(i) /\ kind[i] = "noload"
  /\ i' = i + 1
  /\ attempted' = attempted \cup { << pidx, i >> }
  /\ UNCHANGED << bboxVars, estVars, s1Vars, s2Vars, s4Vars, inputVars, fsVars, pc, pidx, to_build, img_lq, all_rows, rng,
                  lastExit, faults, tbLog, applied, saved, written, snap, snapManifest, prevClean,
                  dmg, produced >>

\* Lines 152-156: apply_degradation raises (unsupported type): continue.
LoopDegradeFail ==
  /\ pc = "loop" /\ i <= MaxIds /\ ImgKey(i) \in to_build
  /\ HasPartition(i) /\ kind[i] # "noload"
  /\ CurPreset.type \notin SupportedTypes
  /\ i' = i + 1
  /\ attempted' = attempted \cup { << pidx, i >> }
  /\ applied' = applied \cup { << pidx, i >> }
  /\ UNCHANGED << bboxVars, estVars, s1Vars, s2Vars, s4Vars, inputVars, fsVars, pc, pidx, to_build, img_lq, all_rows, rng,
                  lastExit, faults, tbLog, saved, written, snap, snapManifest, prevClean, dmg, produced >>

\* Lines 152-159: apply_degradation returns img_lq; save_image_atomic is entered.
LoopDegrade ==
  /\ pc = "loop" /\ i <= MaxIds /\ ImgKey(i) \in to_build
  /\ HasPartition(i) /\ kind[i] # "noload"
  /\ CurPreset.type \in SupportedTypes
  /\ img_lq' = ApplyDegradation(i, CurPreset, OutputSize, rng)
  /\ rng' = IF CurPreset.type = "gaussian_noise" THEN rng + 1 ELSE rng
  /\ pc' = "save"
  /\ attempted' = attempted \cup { << pidx, i >> }
  /\ applied' = applied \cup { << pidx, i >> }
  /\ saved' = saved \cup { << pidx, i >> }
  /\ produced' = produced \cup { << pidx, i, ApplyDegradation(i, CurPreset, OutputSize, rng) >> }
  /\ UNCHANGED << bboxVars, estVars, s1Vars, s2Vars, s4Vars, inputVars, fsVars, pidx, to_build, i, all_rows, lastExit, faults,
                  tbLog, written, snap, snapManifest, prevClean, dmg >>


(***************************************************************************)
(* save_image_atomic(img, path): img.save(tmp) then os.replace(tmp, path). *)
(* img.save creates the file, writes it and closes it: a crash in between  *)
(* leaves a partial <id>.tmp.                                              *)
(***************************************************************************)
\* Mutant of SaveOpen: the image is written straight to the final path.
SaveOpenInPlace ==
  /\ pc = "save" /\ kind[i] # "nosave"
  /\ out' = [out EXCEPT ![<< PresetName(Presets[pidx], pidx), ImgKey(i) >>] = Partial(img_lq)]
  /\ pc' = "save_write"
  /\ UNCHANGED << bboxVars, estVars, s1Vars, s2Vars, s4Vars, inputVars, manifest, manifestTmp, pidx, to_build, i, img_lq,
                  all_rows, rng, lastExit, faults, histVars >>

\* io.py line 68, first part: the temp file is created and partly written.
SaveOpen ==
  /\ pc = "save" /\ kind[i] # "nosave"
  /\ out' = [out EXCEPT ![<< CurDir, TmpKey(i) >>] = Partial(img_lq)]
  /\ pc' = "save_write"
  /\ UNCHANGED << bboxVars, estVars, s1Vars, s2Vars, s4Vars, inputVars, manifest, manifestTmp, pidx, to_build, i, img_lq,
                  all_rows, rng, lastExit, faults, histVars >>

\* io.py line 68, second part: the temp file is complete.
SaveWrite ==
  /\ pc = "save_write"
  /\ out' = [out EXCEPT ![<< CurDir, TmpKey(i) >>] = img_lq]
  /\ pc' = "save_replace"
  /\ UNCHANGED << bboxVars, estVars, s1Vars, s2Vars, s4Vars, inputVars, manifest, manifestTmp, pidx, to_build, i, img_lq,
                  all_rows, rng, lastExit, faults, histVars >>

\* io.py line 69: os.replace(tmp, path); back in the loop, processed_this_run += 1.
SaveReplace ==
  /\ pc = "save_replace"
  /\ out' = [out EXCEPT ![<< CurDir, ImgKey(i) >>] = out[<< CurDir, TmpKey(i) >>],
                        ![<< CurDir, TmpKey(i) >>] = NoFile]
  /\ written' = written \cup { << pidx, i >> }
  /\ pc' = "loop" /\ i' = i + 1 /\ img_lq' = NoFile
  /\ UNCHANGED << bboxVars, estVars, s1Vars, s2Vars, s4Vars, inputVars, manifest, manifestTmp, pidx, to_build, all_rows, rng,
                  lastExit, faults, tbLog, attempted, applied, saved, snap,
                  snapManifest, prevClean, dmg, produced >>

\* stage.py lines 158-162: img.save raises; the exception is logged and the
\* loop continues.  Whether PIL leaves the partly written temp file behind
\* or removes it is the library's choice.
SaveFail ==
  /\ pc = "save" /\ kind[i] = "nosave"
  /\ \E left \in { NoFile, Partial(img_lq) } :
       out' = [out EXCEPT ![<< CurDir, TmpKey(i) >>] = left]
  /\ pc' = "loop" /\ i' = i + 1 /\ img_lq' = NoFile
  /\ UNCHANGED << bboxVars, estVars, s1Vars, s2Vars, s4Vars, inputVars, manifest, manifestTmp, pidx, to_build, all_rows, rng,
                  lastExit, faults, histVars >>

(***************************************************************************)
(* stage.py lines 173-185: the rows of one preset, from the rescan.        *)
(***************************************************************************)
\* The keys of a set as a list: the images by id, then the temp files by id
\* (os.listdir's order is the file system's; the rows do not depend on it
\* beyond their order).
RECURSIVE KeyList(_, _)
KeyList(ks, n) ==
  IF n > 2 * MaxIds THEN << >>
  ELSE LET k == IF n <= MaxIds THEN ImgKey(n) ELSE TmpKey(n - MaxIds)
       IN  (IF k \in ks THEN << k >> ELSE << >>) \o KeyList(ks, n + 1)

\* Mutant of Row: path_deg leaves out the preset's directory.
RowWithoutPresetDir(dir, k) ==
  [ id |-> k, path_gt |-> k, path_deg |-> << CHOOSE d \in DirsOf(cfg) : TRUE, k >>,
    degradation |-> dir, split |-> k.id % 3 ]

\* The row of one valid file.
Row(dir, k) ==
  [ id |-> k, path_gt |-> k, path_deg |-> << dir, k >>,
    degradation |-> dir, split |-> k.id % 3 ]

\* A key has a partition entry when it is the name of an aligned image that
\* list_eval_partition.csv lists; <id>.tmp never is.
KeyHasPartition(k) == k.t = "img" /\ HasPartition(k.id)

RECURSIVE RowsOf(_, _)
RowsOf(dir, valid_files) ==
  IF valid_files = << >> THEN << >>
  ELSE (IF KeyHasPartition(Head(valid_files)) THEN << Row(dir, Head(valid_files)) >> ELSE << >>)
       \o RowsOf(dir, Tail(valid_files))

\* Mutant of ValidFiles: the rows are taken from the files present, not from
\* the files found Valid.
ValidFilesPresent(dir) == KeyList(ListDir(dir), 1)

\* Mutant of ValidFiles: the rows are taken from the files this run renamed
\* into place in the directory.
ValidFilesBuilt(dir) ==
  KeyList({ ImgKey(w[2]) : w \in { x \in written : PresetName(Presets[x[1]], x[1]) = dir } }, 1)

\* valid_files of the rescan (line 173)
ValidFiles(dir) == KeyList(ListValidRgbImages(dir, ExpectSize), 1)

\* Lines 131/168-185: the loop is over; rescan, append the rows, next preset.
Rescan ==
  /\ \/ pc = "rescan"
     \/ pc = "loop" /\ i > MaxIds
  /\ all_rows' = all_rows \o RowsOf(CurDir, ValidFiles(CurDir))
  /\ IF pidx < Len(Presets)
       THEN pc' = "scan" /\ pidx' = pidx + 1
       ELSE pc' = "manifest_open" /\ pidx' = pidx
  /\ to_build' = {} /\ i' = 0
  /\ UNCHANGED << bboxVars, estVars, s1Vars, s2Vars, s4Vars, inputVars, fsVars, img_lq, rng, lastExit, faults, histVars >>

(***************************************************************************)
(* stage.py lines 187-206: the manifest and the closing sanity check.      *)
(***************************************************************************)
\* Lines 188-190: the temp manifest is created, the header written.
ManifestOpen ==
  /\ pc = "manifest_open"
  /\ manifestTmp' = [st |-> "part", rows |-> << >>]
  /\ pc' = "manifest_write"
  /\ UNCHANGED << bboxVars, estVars, s1Vars, s2Vars, s4Vars, inputVars, out, manifest, pidx, to_build, i, img_lq, all_rows, rng,
                  lastExit, faults, histVars >>

\* Lines 191-192: every row written, the file closed.
ManifestWrite ==
  /\ pc = "manifest_write"
  /\ manifestTmp' = [st |-> "full", rows |-> all_rows]
  /\ pc' = "manifest_replace"
  /\ UNCHANGED << bboxVars, estVars, s1Vars, s2Vars, s4Vars, inputVars, out, manifest, pidx, to_build, i, img_lq, all_rows, rng,
                  lastExit, faults, histVars >>

\* Line 193: os.replace(tmp_manifest, manifest_path).
ManifestReplace ==
  /\ pc = "manifest_replace"
  /\ manifest' = manifestTmp
  /\ manifestTmp' = NoManifest
  /\ pc' = "verify"
  /\ UNCHANGED << bboxVars, estVars, s1Vars, s2Vars, s4Vars, inputVars, out, pidx, to_build, i, img_lq, all_rows, rng,
                  lastExit, faults, histVars >>

\* deg_paths (line 195)
RECURSIVE DegPaths(_)
DegPaths(rows) ==
  IF rows = << >> THEN << >> ELSE << Head(rows).path_deg >> \o DegPaths(Tail(rows))

\* Line 197: the sanity check passes.
SanityOk == VerifyRgbImagesOk(DegPaths(all_rows), ExpectSize) = Len(DegPaths(all_rows))

\* Every item the loop body was entered for was renamed into place.
NoItemFailed == attempted = written

\* Lines 195-206: the sanity check; SystemExit(1) on a mismatch, else the
\* stage returns.
Verify ==
  /\ pc = "verify"
  /\ lastExit' = IF SanityOk THEN "ok" ELSE "error"
  /\ prevClean' = (SanityOk /\ NoItemFailed)
  /\ dmg' = << >>
  /\ ProcIdle /\ HistIdle
  /\ UNCHANGED << bboxVars, estVars, s1Vars, s2Vars, s4Vars, inputVars, fsVars, faults, produced >>

(***************************************************************************)
(* The environment.                                                        *)
(***************************************************************************)
\* The process is killed (or the machine stops) between two steps.
Crash ==
  /\ pc # "idle" /\ faults < MaxFaults
  /\ faults' = faults + 1
  /\ lastExit' = "crash"
  /\ prevClean' = FALSE /\ dmg' = << >>
  /\ ProcIdle /\ HistIdle
  /\ UNCHANGED << bboxVars, estVars, s1Vars, s2Vars, s4Vars, inputVars, fsVars, produced >>

\* Every required id has a Valid output in every preset directory.
AllValid ==
  \A dir \in DirsOf(cfg) : \A id \in Ids : IsValidRgb(out[<< dir, ImgKey(id) >>], ExpectSize)

\* One output image is deleted or truncated.
Damage(dir, id) ==
  /\ faults < MaxFaults
  /\ out[<< dir, ImgKey(id) >>].st = "full"
  /\ \E f \in { NoFile, Partial(out[<< dir, ImgKey(id) >>]) } :
       out' = [out EXCEPT ![<< dir, ImgKey(id) >>] = f]
  /\ faults' = faults + 1
  /\ UNCHANGED << bboxVars, estVars, s1Vars, s2Vars, s4Vars, inputVars, manifest, manifestTmp, procVars, lastExit, tbLog,
                  attempted, applied, saved, written, snap, snapManifest, produced >>

\* ... between two runs.
DamageIdle ==
  /\ pc = "idle"
  /\ \E dir \in DirsOf(cfg), id \in Ids :
       /\ Damage(dir, id)
       /\ dmg' = IF AllValid THEN << dir, id >> ELSE << >>
  /\ prevClean' = FALSE

\* ... while the stage runs (another process shares the output tree).
DamageRunning ==
  /\ pc # "idle"
  /\ \E dir \in DirsOf(cfg), id \in Ids : Damage(dir, id)
  /\ UNCHANGED << prevClean, dmg >>

(***************************************************************************)
(* Specifications.                                                         *)
(***************************************************************************)
S3Next ==
  \/ StartRun \/ ScanPreset
  \/ LoopSkip \/ LoopNoPartition \/ LoopLoadFail \/ LoopDegradeFail \/ LoopDegrade
  \/ SaveOpen \/ SaveWrite \/ SaveReplace \/ SaveFail
  \/ Rescan
  \/ ManifestOpen \/ ManifestWrite \/ ManifestReplace \/ Verify
  \/ Crash \/ DamageIdle

\* The stage run and re-run on one machine; output files are damaged only
\* between runs.
Next == S3Next
Spec == Init /\ [][Next]_vars

\* As Spec, and output files may be damaged while the stage runs.
NextShared == S3Next \/ DamageRunning
SpecShared == Init /\ [][NextShared]_vars


(***************************************************************************)
(* s1_data/stage.py: run, and utils/prune.py: prune_dataset.  The images   *)
(* of data/img_align_celeba are the ids 1 .. data_n.  What the checks of   *)
(* the stage find in data/, fixed for the whole behaviour:                 *)
(*   "ok"             every path exists, the CSVs are consistent           *)
(*   "missing_path"   the image directory or a CSV is absent               *)
(*   "no_images"      the image directory holds no image                   *)
(*   "unreadable_csv" a CSV cannot be parsed or is empty                   *)
(*   "bad_schema"     a CSV fails validate_csv_schemas                     *)
(*   "id_mismatch"    the ids of a CSV differ from the image files         *)
(*   "bad_partition"  a partition label is not allowed or an id is twice   *)
(***************************************************************************)
DataKinds ==
  { "ok", "missing_path", "no_images", "unreadable_csv", "bad_schema", "id_mismatch",
    "bad_partition" }

\* The dataset sizes tried: one image short of min_size up to MaxExtra more.
DataSizes == (min_size - 1) .. (min_size + MaxExtra)

\* image_filenames
image_filenames == 1 .. data_n

\* The integers typed at the prompt: from below min_size to above max_size.
PromptSizes == (min_size - 1) .. (data_n + 1)

\* The subsets of S with m members.
RECURSIVE SubsetsOfSize(_, _)
SubsetsOfSize(S, m) ==
  IF m = 0 THEN { {} }
  ELSE UNION { { T \cup { e } : T \in SubsetsOfSize({ u \in S : u > e }, m - 1) } : e \in S }

\* The sets rng.sample(sorted(image_filenames), sample_size) may return,
\* each given by the ids it leaves out.
SampleSets(k) == { image_filenames \ X : X \in SubsetsOfSize(image_filenames, data_n - k) }

\* stage.py lines 28-62: a required path is absent, there is no image or a
\* check of the metadata fails: SystemExit(1) before the prompt.
S1CheckFails ==
  /\ s1pc = "idle" /\ data_kind # "ok"
  /\ s1Exit' = "error"
  /\ UNCHANGED << data_n, data_kind, s1pc, sample_size, selected, pruned_imgs, pruned_csv,
                  s3Vars, bboxVars, estVars, s2Vars, s4Vars >>

\* Lines 28-67: every check passes; the stage asks for the sample size.
S1Prompt ==
  /\ s1pc = "idle" /\ data_kind = "ok"
  /\ s1pc' = "prompt" /\ s1Exit' = "none"
  /\ sample_size' = 0 /\ selected' = {}
  /\ UNCHANGED << data_n, data_kind, pruned_imgs, pruned_csv,
                  s3Vars, bboxVars, estVars, s2Vars, s4Vars >>

\* Lines 71-75: an integer outside [min_size, max_size]: SystemExit(1).
S1SizeRejected ==
  /\ s1pc = "prompt"
  /\ \E k \in PromptSizes :
       /\ ~ (min_size <= k /\ k <= data_n)
       /\ sample_size' = k
  /\ s1pc' = "idle" /\ s1Exit' = "error"
  /\ UNCHANGED << data_n, data_kind, selected, pruned_imgs, pruned_csv,
                  s3Vars, bboxVars, estVars, s2Vars, s4Vars >>

\* Lines 87-94: empty input; every image is copied.
S1CopyImages ==
  /\ s1pc = "prompt"
  /\ selected' = image_filenames
  /\ pruned_imgs' = pruned_imgs \cup image_filenames
  /\ s1pc' = "copy_csv"
  /\ UNCHANGED << data_n, data_kind, sample_size, pruned_csv, s1Exit,
                  s3Vars, bboxVars, estVars, s2Vars, s4Vars >>

\* Lines 95-99: the four CSVs are copied.
S1CopyCsvs ==
  /\ s1pc = "copy_csv"
  /\ pruned_csv' = [f \in MetaSet |-> [exists |-> TRUE, ids |-> image_filenames]]
  /\ s1pc' = "summary"
  /\ UNCHANGED << data_n, data_kind, sample_size, selected, pruned_imgs, s1Exit,
                  s3Vars, bboxVars, estVars, s2Vars, s4Vars >>

\* Lines 71-85, prune.py lines 23-25: an accepted sample size that is not
\* below the number of images: prune_dataset returns image_filenames and
\* writes nothing.
S1PruneSkips ==
  /\ s1pc = "prompt"
  /\ \E k \in PromptSizes :
       /\ min_size <= k /\ k <= data_n
       /\ k >= data_n
       /\ sample_size' = k
  /\ selected' = image_filenames
  /\ s1pc' = "summary"
  /\ UNCHANGED << data_n, data_kind, pruned_imgs, pruned_csv, s1Exit,
                  s3Vars, bboxVars, estVars, s2Vars, s4Vars >>

\* Lines 71-85, prune.py lines 27-39: the ids are sampled and their images
\* copied.
S1PruneImages ==
  /\ s1pc = "prompt"
  /\ \E k \in PromptSizes :
       /\ min_size <= k /\ k <= data_n
       /\ ~ (k >= data_n)
       /\ sample_size' = k
       /\ \E sampled_ids \in SampleSets(k) :
            /\ selected' = sampled_ids
            /\ pruned_imgs' = pruned_imgs \cup sampled_ids
  /\ s1pc' = "prune_csv"
  /\ UNCHANGED << data_n, data_kind, pruned_csv, s1Exit,
                  s3Vars, bboxVars, estVars, s2Vars, s4Vars >>

\* prune.py lines 41-50: each CSV is written with the rows of the sampled
\* ids.
S1PruneCsvs ==
  /\ s1pc = "prune_csv"
  /\ pruned_csv' = [f \in MetaSet |-> [exists |-> TRUE, ids |-> selected]]
  /\ s1pc' = "summary"
  /\ UNCHANGED << data_n, data_kind, sample_size, selected, pruned_imgs, s1Exit,
                  s3Vars, bboxVars, estVars, s2Vars, s4Vars >>

\* stage.py lines 101-103: the summary is logged; the stage has completed.
S1Done ==
  /\ s1pc = "summary"
  /\ s1pc' = "idle" /\ s1Exit' = "ok"
  /\ UNCHANGED << data_n, data_kind, sample_size, selected, pruned_imgs, pruned_csv,
                  s3Vars, bboxVars, estVars, s2Vars, s4Vars >>

\* A fresh output directory over any dataset; the later stages are not run.
InitS1 ==
  /\ data_n \in DataSizes /\ data_kind \in DataKinds
  /\ s1pc = "idle" /\ sample_size = 0 /\ selected = {}
  /\ pruned_imgs = {} /\ pruned_csv = [f \in MetaSet |-> NoCsv] /\ s1Exit = "none"
  /\ cfg = "plain" /\ kind = [id \in Ids |-> "ok"] /\ S3Fresh
  /\ BboxOff /\ S2Off /\ S4Off

NextS1 ==
  \/ S1CheckFails \/ S1Prompt \/ S1SizeRejected
  \/ S1CopyImages \/ S1CopyCsvs
  \/ S1PruneSkips \/ S1PruneImages \/ S1PruneCsvs \/ S1Done

\* The S1 stage run and re-run over one dataset.
SpecS1 == InitS1 /\ [][NextS1]_vars

\* C30 (S1 postcondition): when a run of the S1 stage has completed
\* successfully, the S1-pruned directory holds the image of every selected
\* id, and each of the four metadata CSVs exists and holds the rows of the
\* selected ids and no others.
C30_PrunedDatasetComplete ==
  (s1pc = "idle" /\ s1Exit = "ok") =>
    /\ selected \subseteq pruned_imgs
    /\ \A f \in MetaSet : pruned_csv[f].exists /\ pruned_csv[f].ids = selected

(***************************************************************************)
(* s2_align/s2b.py: _transform_bbox.  Coordinates are exact multiples of   *)
(* 1/SubPixel pixel.  A transform M is << << a, b, tx >>, << c, d, ty >> >>  *)
(* with the linear entries a, b, c, d counted in 1/SubPixel (they multiply *)
(* raw pixel coordinates) and the translation in 1/SubPixel pixel.         *)
(* The values are binary floating-point numbers: a number of 1/SubPixel    *)
(* pixel with MantissaBits significant bits, every arithmetic result       *)
(* rounded to the nearest such number, a tie to the one with the even      *)
(* mantissa.                                                               *)
(***************************************************************************)
\* The distance between neighbouring floating-point numbers at magnitude a.
RECURSIVE Ulp(_)
Ulp(a) == IF a < 2 ^ MantissaBits THEN 1 ELSE 2 * Ulp(a \div 2)

\* The floating-point result of an operation whose exact result is n.
Fl(n) ==
  LET s == Ulp(IF n < 0 THEN 0 - n ELSE n)
      q == n \div s
      r == n % s
  IN  IF 2 * r < s THEN q * s
      ELSE IF 2 * r > s THEN (q + 1) * s
      ELSE IF q % 2 = 0 THEN q * s ELSE (q + 1) * s

\* Python's min(a, b) and max(a, b) of two numbers.
PyMin(a, b) == IF b < a THEN b ELSE a
PyMax(a, b) == IF b > a THEN b ELSE a

\* One row of M @ [x, y, 1]: two products and two sums.
AffineRow(row, x, y) == Fl(Fl(Fl(row[1] * x) + Fl(row[2] * y)) + row[3])

\* Mutant of TransformBbox: the extent is clipped to the canvas size, not to
\* what is left of the canvas from the clamped origin.
TransformBboxClipsToSize(M, x, y, w, h) ==
  LET xa == AffineRow(M[1], x, y)
      xb == AffineRow(M[1], x + w, y + h)
      ya == AffineRow(M[2], x, y)
      yb == AffineRow(M[2], x + w, y + h)
      x_min == PyMax(0, PyMin(PyMin(xa, xb), (TARGET_SIZE - 1) * SubPixel))
      y_min == PyMax(0, PyMin(PyMin(ya, yb), (TARGET_SIZE - 1) * SubPixel))
  IN  << x_min, y_min,
         PyMax(SubPixel, PyMin(Fl(PyMax(xa, xb) - PyMin(xa, xb)), TARGET_SIZE * SubPixel)),
         PyMax(SubPixel, PyMin(Fl(PyMax(ya, yb) - PyMin(ya, yb)), TARGET_SIZE * SubPixel)) >>

\* _transform_bbox(M, x, y, w, h): the two opposite corners are transformed,
\* their axis-aligned bounding rectangle taken and clipped to the canvas.
TransformBbox(M, x, y, w, h) ==
  LET xa == AffineRow(M[1], x, y)
      xb == AffineRow(M[1], x + w, y + h)
      ya == AffineRow(M[2], x, y)
      yb == AffineRow(M[2], x + w, y + h)
      x_max == PyMax(xa, xb)
      y_max == PyMax(ya, yb)
      w_new == Fl(x_max - PyMin(xa, xb))
      h_new == Fl(y_max - PyMin(ya, yb))
      x_min == PyMax(0, PyMin(PyMin(xa, xb), (TARGET_SIZE - 1) * SubPixel))
      y_min == PyMax(0, PyMin(PyMin(ya, yb), (TARGET_SIZE - 1) * SubPixel))
  IN  << x_min, y_min,
         PyMax(SubPixel, PyMin(w_new, Fl(TARGET_SIZE * SubPixel - x_min))),
         PyMax(SubPixel, PyMin(h_new, Fl(TARGET_SIZE * SubPixel - y_min))) >>

\* The linear parts tried: identity, scaling by 1/SubPixel, a quarter turn,
\* a half turn, the zero map and a map with shear.
BboxLinear ==
  { << << SubPixel, 0 >>, << 0, SubPixel >> >>,
    << << 1, 0 >>, << 0, 1 >> >>,
    << << 0, 0 - SubPixel >>, << SubPixel, 0 >> >>,
    << << 0 - SubPixel, 0 >>, << 0, 0 - SubPixel >> >>,
    << << 0, 0 >>, << 0, 0 >> >>,
    << << 3, 1 >>, << 0 - 1, 2 >> >> }

\* The translations tried, in 1/SubPixel pixel: far left of the canvas, none,
\* just above half a pixel,
\* just inside its far edge, far right of it.
BboxShift ==
  { 0 - 2 * TARGET_SIZE * SubPixel, 0, SubPixel \div 2 + 1,
    Fl(TARGET_SIZE * SubPixel - 1), 3 * TARGET_SIZE * SubPixel }

\* The raw boxes tried (pixels, as list_bbox_celeba.csv holds them).
BboxOrigin == { 0 - 300, 0, TARGET_SIZE - 1 }
BboxExtent == { 0 - 10, 0, 1, 300 }

BboxInputs ==
  { [ M |-> << << l[1][1], l[1][2], tx >>, << l[2][1], l[2][2], ty >> >>,
      x |-> x, y |-> y, w |-> w, h |-> h ] :
      l \in BboxLinear, tx \in BboxShift, ty \in BboxShift,
      x \in BboxOrigin, y \in BboxOrigin, w \in BboxExtent, h \in BboxExtent }

\* run_s2b line 165: one call of _transform_bbox returns.
TransformBboxCall ==
  /\ bbox_in # << >> /\ bbox_out = << >>
  /\ bbox_out' = TransformBbox(bbox_in.M, bbox_in.x, bbox_in.y, bbox_in.w, bbox_in.h)
  /\ UNCHANGED << bbox_in, estVars, s1Vars, s3Vars, s2Vars, s4Vars >>

\* A call of _transform_bbox with any of the inputs; the S3 stage is not run.
InitBbox ==
  /\ S1Off
  /\ cfg = "plain" /\ kind = [id \in Ids |-> "ok"] /\ S3Fresh
  /\ bbox_in \in BboxInputs /\ bbox_out = << >>
  /\ src_pts = << >> /\ est_M = << >>
  /\ S2Off /\ S4Off

NextBbox == TransformBboxCall
SpecBbox == InitBbox /\ [][NextBbox]_vars

CornersX ==
  { AffineRow(bbox_in.M[1], bbox_in.x, bbox_in.y),
    AffineRow(bbox_in.M[1], bbox_in.x + bbox_in.w, bbox_in.y + bbox_in.h) }
CornersY ==
  { AffineRow(bbox_in.M[2], bbox_in.x, bbox_in.y),
    AffineRow(bbox_in.M[2], bbox_in.x + bbox_in.w, bbox_in.y + bbox_in.h) }
SetMin(S) == CHOOSE v \in S : \A u \in S : v <= u
SetMax(S) == CHOOSE v \in S : \A u \in S : v >= u

\* The rectangle overlaps the canvas with extent at least 1 on both axes.
OverlapsCanvas ==
  /\ PyMin(SetMax(CornersX), TARGET_SIZE * SubPixel) - PyMax(SetMin(CornersX), 0) >= SubPixel
  /\ PyMin(SetMax(CornersY), TARGET_SIZE * SubPixel) - PyMax(SetMin(CornersY), 0) >= SubPixel

\* C29 (as stated; violated): whenever the bounding rectangle of the two
\* transformed corners overlaps the canvas with extent at least 1 in each
\* axis, the right edge x' + w' of the returned box does not exceed the
\* transformed x_max and its bottom edge y' + h' does not exceed the
\* transformed y_max.  The extent is computed before the origin is clamped
\* and cut only to what is left of the canvas, so a rectangle that starts
\* left of (above) the canvas keeps its full extent from the clamped origin.
C29_ClampOnlyTruncates ==
  (bbox_out # << >> /\ OverlapsCanvas) =>
    /\ bbox_out[1] + bbox_out[3] <= SetMax(CornersX)
    /\ bbox_out[2] + bbox_out[4] <= SetMax(CornersY)

(***************************************************************************)
(* Claims about the S3 build scheduler.                                    *)
(***************************************************************************)
\* The directory of preset number p of the config in use.
DirOfPreset(p) == PresetName(Presets[p], p)

\* A run is under way that follows the given kind of event directly.
Running == pc # "idle"

\* C1 (idempotence): in a run that directly follows a run which ended
\* successfully (on unchanged inputs and an untouched output tree),
\* apply_degradation and save_image_atomic are called for no preset and no
\* id, and every output file is what it was when the run started.  Stated
\* for first runs in which no item failed, the case the claim covers beyond
\* doubt.
C1_SecondRunDoesNothing ==
  (prevClean /\ Running) => (applied = {} /\ saved = {} /\ out = snap)

\* The output images present in the tree.
OutputFiles == { s \in DOMAIN out : s[2].t = "img" /\ out[s].st # "none" }

\* C19 (as stated; violated): with N required ids that all have a partition
\* entry, a single preset with a fixed output_size, an empty output
\* directory and no per-item failure, one run of the stage produces exactly
\* N output files and a manifest with exactly N rows, one per id.  An id
\* whose degraded JPEG is smaller than MIN_BYTES is built and saved without
\* any failure, but the rescan that makes the rows does not count its file
\* as Valid: N files, fewer than N rows, and the sanity check passes.
C19_FirstRunComplete ==
  ( /\ pc = "verify"
    /\ Len(Presets) = 1 /\ OutputSize # << >>
    /\ \A id \in Ids : HasPartition(id)
    /\ \A s \in DOMAIN snap : snap[s].st = "none"
    /\ snapManifest = NoManifest
    /\ NoItemFailed )
  => /\ Cardinality(OutputFiles) = MaxIds
     /\ manifest.st = "full" /\ Len(manifest.rows) = MaxIds
     /\ \A id \in Ids : \E n \in DOMAIN manifest.rows : manifest.rows[n].id = ImgKey(id)

\* C2 (minimal rebuild): in the run that follows the deletion or truncation
\* of exactly one output in a tree where every required id had a Valid
\* output, the to_build set of the damaged directory is exactly {that id},
\* every other to_build set is empty, only that file is renamed into place,
\* every other output image is what it was when the run started, and at the
\* end of the run that one file has been rewritten and is Valid.
C2_MinimalRebuild ==
  (dmg # << >> /\ Running) =>
    /\ \A p \in DOMAIN tbLog :
         /\ tbLog[p] \subseteq { ImgKey(dmg[2]) }
         /\ tbLog[p] # {} => DirOfPreset(p) = dmg[1]
         /\ (DirOfPreset(p) = dmg[1] /\ \A q \in 1 .. (p - 1) : DirOfPreset(q) # dmg[1])
              => tbLog[p] = { ImgKey(dmg[2]) }
    /\ \A w \in written : DirOfPreset(w[1]) = dmg[1] /\ w[2] = dmg[2]
    /\ \A dir \in DirsOf(cfg), id \in Ids :
         << dir, id >> # dmg => out[<< dir, ImgKey(id) >>] = snap[<< dir, ImgKey(id) >>]
    /\ pc = "verify" =>
         /\ Cardinality(written) = 1
         /\ IsValidRgb(out[<< dmg[1], ImgKey(dmg[2]) >>], ExpectSize)

\* C2's case: a run after one damaged output has rebuilt it, in a tree of
\* more than one output.
C2_Witness ==
  /\ dmg # << >> /\ pc = "verify" /\ written # {}
  /\ \E dir \in DirsOf(cfg), id \in Ids :
       << dir, id >> # dmg /\ out[<< dir, ImgKey(id) >>].st = "full"

\* C3 (manifest/file consistency): when the manifest has just been renamed
\* into place, every row's path_deg is a file that exists and passes
\* _is_valid_rgb with the run's expect_size.
C3_ManifestRowsValid ==
  pc = "verify" =>
    \A n \in DOMAIN manifest.rows :
      IsValidRgb(out[manifest.rows[n].path_deg], ExpectSize)

\* C3's case: a manifest with rows was finalized while the same directory
\* holds a file that is not Valid.
C3_Witness ==
  /\ pc = "verify" /\ manifest.rows # << >>
  /\ \E n \in DOMAIN manifest.rows :
       \E k \in ListDir(manifest.rows[n].path_deg[1]) :
         ~ IsValidRgb(out[<< manifest.rows[n].path_deg[1], k >>], ExpectSize)

\* C4 (atomic output write): no step of the process, and no crash, leaves
\* at a final output path anything but what was there before or the
\* complete new image; and a partly written or truncated file is never
\* Valid.
C4_FinalPathAtomic ==
  /\ [][ faults' = faults =>
           \A s \in DOMAIN out :
             s[2].t = "img" =>
               \/ out'[s] = out[s]
               \/ out'[s] = img_lq /\ img_lq.st = "full" ]_vars
  /\ [][ faults' # faults /\ pc # "idle" /\ pc' = "idle" => out' = out ]_vars
  /\ [] (\A s \in DOMAIN out : out[s].st = "part" => ~ IsValidRgb(out[s], ExpectSize))

\* C4's case: the process crashed inside save_image_atomic, the temp file
\* is partly written (and large enough to pass the size floor), and the
\* final path holds no file.
C4_Witness ==
  /\ lastExit = "crash" /\ pc = "idle"
  /\ \E dir \in DirsOf(cfg), id \in Ids :
       /\ out[<< dir, TmpKey(id) >>].st = "part"
       /\ out[<< dir, TmpKey(id) >>].bytes >= MIN_BYTES
       /\ out[<< dir, ImgKey(id) >>].st = "none"

\* C5 (sanity check before the manifest): a run in which the rows and the
\* valid files already differ, so that its closing sanity check finds the
\* mismatch and exits with status 1, does not create or replace the manifest.
C5_MismatchLeavesManifest ==
  [][ (pc = "manifest_replace" /\ ~ SanityOk) => manifest' = manifest ]_vars

\* The required ids of a directory without a complete output.
Unfinished(dir) == { ImgKey(id) : id \in { n \in Ids : out[<< dir, ImgKey(n) >>].st # "full" } }

\* C6 (resumability): in the run that follows a crash, the to_build set a
\* scan has just computed is exactly the set of required ids whose output
\* is not finished.
C6_ToBuildIsUnfinished ==
  (lastExit = "crash" /\ (pc = "rescan" \/ (pc = "loop" /\ i = 1))) =>
    to_build = Unfinished(CurDir)

\* C7 (skip and continue): when the build loops of a run are over, the loop
\* body was entered for every aligned id of every to_build set, and no run
\* ends with an error.
C7_SkipAndContinue ==
  /\ pc \in {"manifest_open", "manifest_write", "manifest_replace", "verify"} =>
       \A p \in DOMAIN tbLog : \A id \in Ids :
         ImgKey(id) \in tbLog[p] => << p, id >> \in attempted
  /\ lastExit # "error"

\* C7's case: in one preset an item failed and a later item was built.
C7_Witness ==
  /\ pc = "verify"
  /\ \E a \in attempted \ written : \E w \in written : a[1] = w[1] /\ a[2] < w[2]

\* C9 (per-item purity): whatever apply_degradation returned for one
\* (preset, id), in any run, is the same image.
C9_OutputIsFunctionOfItem ==
  \A a \in produced : \A b \in produced :
    (a[1] = b[1] /\ a[2] = b[2]) => a[3] = b[3]


\* The preset names, as PresetName resolves them, are pairwise different.
NamesDistinct ==
  \A p \in DOMAIN Presets : \A q \in DOMAIN Presets : p # q => DirOfPreset(p) # DirOfPreset(q)

\* The output path of a build item.
PathOfItem(item) == << DirOfPreset(item[1]), ImgKey(item[2]) >>

\* No two build items of a run save to the same path (nor, the temp path
\* being the path plus ".tmp", to the same temp path), and no two rows of
\* the manifest being collected or of the written one share a path_deg.
UniqueOwnership ==
  /\ \A a \in saved : \A b \in saved : a # b => PathOfItem(a) # PathOfItem(b)
  /\ \A m \in DOMAIN all_rows : \A n \in DOMAIN all_rows :
       m # n => all_rows[m].path_deg # all_rows[n].path_deg
  /\ \A m \in DOMAIN manifest.rows : \A n \in DOMAIN manifest.rows :
       m # n => manifest.rows[m].path_deg # manifest.rows[n].path_deg

\* C10 as claimed (unique output ownership): for every preset list, every
\* output path is written for exactly one (preset, id) and no two manifest
\* rows share a path_deg.
C10_UniqueOwnershipAnyConfig == UniqueOwnership

\* C10 as amended: the same, for preset lists whose resolved names are
\* pairwise different.
C10_UniqueOwnershipDistinctNames == NamesDistinct => UniqueOwnership

\* C10's case: two presets with different names have each built and
\* recorded the same id.
C10_Witness ==
  /\ NamesDistinct /\ pc = "verify"
  /\ \E a \in written : \E b \in written : a[1] # b[1] /\ a[2] = b[2]
  /\ \E m \in DOMAIN manifest.rows : \E n \in DOMAIN manifest.rows :
       /\ manifest.rows[m].id = manifest.rows[n].id
       /\ manifest.rows[m].degradation # manifest.rows[n].degradation

\* The rows a step has appended to all_rows.
AddedRows == SubSeq(all_rows', Len(all_rows) + 1, Len(all_rows'))

\* The keys of the current preset's directory that are Valid and have a
\* partition entry.
ValidWithPartition ==
  { k \in Keys : IsValidRgb(out[<< CurDir, k >>], ExpectSize) /\ KeyHasPartition(k) }

\* C23 (the manifest records the final valid set): the step that ends a
\* preset appends to all_rows exactly one row for every file of the
\* preset's directory that is Valid after the build loop and has a
\* partition entry, and no other row, whether or not the file was built in
\* this run.
C23_RowsAreFinalValidSet ==
  [][ ((pc = "rescan" \/ (pc = "loop" /\ i > MaxIds)) /\ pc' # "idle") =>
        /\ Len(all_rows') >= Len(all_rows)
        /\ SubSeq(all_rows', 1, Len(all_rows)) = all_rows
        /\ { AddedRows[n].id : n \in DOMAIN AddedRows } = ValidWithPartition
        /\ Len(AddedRows) = Cardinality(ValidWithPartition)
        /\ \A n \in DOMAIN AddedRows :
             /\ AddedRows[n].degradation = CurDir
             /\ AddedRows[n].path_deg = << CurDir, AddedRows[n].id >> ]_vars

\* C23's case: the rows of a single-preset run are complete; one is of a
\* file that was Valid before and not attempted in this run, and an id that
\* was attempted in this run (and has a partition entry) has no row.
C23_Witness ==
  /\ pc = "manifest_open" /\ Len(Presets) = 1
  /\ \E n \in DOMAIN all_rows : << 1, all_rows[n].id.id >> \notin attempted
  /\ \E a \in attempted :
       /\ HasPartition(a[2])
       /\ \A n \in DOMAIN all_rows : all_rows[n].id # ImgKey(a[2])

\* C24 (as stated; violated): when the build loops of a run are over, every
\* key of every to_build set was visited by the loop body, so to_build
\* never holds a key the loop does not visit.  The loop runs over the
\* aligned filenames only, while corrupt is taken from every entry of the
\* output directory: an <id>.tmp left by an interrupted or failed save is
\* in to_build in every later run and is never visited (nor removed).
C24_EveryToBuildKeyVisited ==
  pc \in {"manifest_open", "manifest_write", "manifest_replace", "verify"} =>
    \A p \in DOMAIN tbLog : \A k \in tbLog[p] :
      k.t = "img" /\ << p, k.id >> \in attempted

\* C25 (as stated; violated): every output file that save_image_atomic
\* wrote without error in a run is Valid for the run's expect_size when
\* the rows are collected and when the run ends.  A degraded JPEG smaller
\* than MIN_BYTES is written without error and is not Valid.
C25_WrittenIsValid ==
  pc \in {"manifest_open", "manifest_write", "manifest_replace", "verify"} =>
    \A w \in written : IsValidRgb(out[PathOfItem(w)], ExpectSize)

(***************************************************************************)
(* s2_align/s2a.py: estimate_similarity_transform, one call of             *)
(* cv2.estimateAffinePartial2D(src, dst, method=cv2.LMEDS).  The library   *)
(* function is modelled by its documentation, in exact arithmetic: a       *)
(* similarity with four degrees of freedom is computed from minimal        *)
(* samples of two correspondences, and the one with the least median       *)
(* residual is returned with the mask of its inliers.  When src and dst    *)
(* are exactly similar every sample gives the same transform, with         *)
(* residual 0; for other inputs the model keeps the transform of every     *)
(* sample as a possible outcome.  A transform is << a, b, tx, ty, den >>,  *)
(* standing for [[a, -b, tx], [b, a, ty]] / den, in lowest terms.          *)
(***************************************************************************)
CANONICAL_5PT ==
  << << 70, 100 >>, << 186, 100 >>, << 128, 142 >>, << 88, 182 >>, << 168, 182 >> >>

IdentityM == << 1, 0, 0, 0, 1 >>

\* The None of a call that finds no transform.
NoTransform == << "None" >>

RECURSIVE Gcd(_, _)
Gcd(m, n) ==
  LET a == IF m < 0 THEN 0 - m ELSE m
      b == IF n < 0 THEN 0 - n ELSE n
  IN  IF b = 0 THEN a ELSE Gcd(b, a % b)

\* The fraction written in lowest terms (den > 0).
Reduced(M) ==
  LET d == Gcd(Gcd(Gcd(M[1], M[2]), Gcd(M[3], M[4])), M[5])
      q(v) == IF v < 0 THEN 0 - ((0 - v) \div d) ELSE v \div d
  IN  << q(M[1]), q(M[2]), q(M[3]), q(M[4]), q(M[5]) >>

\* The similarity that carries src[p1] to dst[p1] and src[p2] to dst[p2].
TwoPointSimilarity(src, dst, p1, p2) ==
  LET sx == src[p2][1] - src[p1][1]
      sy == src[p2][2] - src[p1][2]
      dx == dst[p2][1] - dst[p1][1]
      dy == dst[p2][2] - dst[p1][2]
      den == sx * sx + sy * sy
      a == dx * sx + dy * sy
      b == dy * sx - dx * sy
  IN  Reduced(<< a, b,
                 dst[p1][1] * den - (a * src[p1][1] - b * src[p1][2]),
                 dst[p1][2] * den - (b * src[p1][1] + a * src[p1][2]),
                 den >>)

\* M applied to the point p, times den.
ApplyM(M, p) ==
  << M[1] * p[1] - M[2] * p[2] + M[3], M[2] * p[1] + M[1] * p[2] + M[4] >>

\* The mask of the correspondences M fits.
InlierMask(M, src, dst) ==
  [k \in DOMAIN src |->
     IF ApplyM(M, src[k]) = << M[5] * dst[k][1], M[5] * dst[k][2] >> THEN 1 ELSE 0]

\* The samples of two correspondences with distinct source points.
Samples(src) ==
  { ij \in (DOMAIN src) \X (DOMAIN src) : ij[1] < ij[2] /\ src[ij[1]] # src[ij[2]] }

\* The pairs (transform, inlier mask) cv2.estimateAffinePartial2D may
\* return; (None, None) when no sample gives a transform.
EstimateAffinePartial2D(src, dst) ==
  IF Samples(src) = {} THEN { << NoTransform, NoTransform >> }
  ELSE LET cand == { TwoPointSimilarity(src, dst, ij[1], ij[2]) : ij \in Samples(src) }
           misfits(M) == Cardinality({ k \in DOMAIN src : InlierMask(M, src, dst)[k] = 0 })
           best == { M \in cand : \A N \in cand : misfits(M) <= misfits(N) }
       IN  { << M, InlierMask(M, src, dst) >> : M \in best }

\* Mutant of EstimateSimilarityTransform: the second member of the returned
\* pair, the inlier mask, is taken for the transform.
EstimateSimilarityTransformMask(ret) == ret[2]

\* estimate_similarity_transform: the first member of the returned pair.
EstimateSimilarityTransform(ret) == ret[1]

\* The point sets tried as src: CANONICAL_5PT turned by a multiple of a
\* quarter turn, scaled by 1 or 2 and shifted by up to a pixel on each axis;
\* CANONICAL_5PT with one point moved by a pixel; five equal points.
Turned(p, t) ==
  IF t = 0 THEN p
  ELSE IF t = 1 THEN << 0 - p[2], p[1] >>
  ELSE IF t = 2 THEN << 0 - p[1], 0 - p[2] >>
  ELSE << p[2], 0 - p[1] >>

EstInputs ==
  { [k \in 1 .. 5 |-> << c * Turned(CANONICAL_5PT[k], t)[1] + ox,
                         c * Turned(CANONICAL_5PT[k], t)[2] + oy >>] :
      t \in 0 .. 3, c \in 1 .. 2, ox \in -1 .. 1, oy \in -1 .. 1 }
  \cup { [CANONICAL_5PT EXCEPT ![k] = << @[1] + 1, @[2] >>] : k \in 1 .. 5 }
  \cup { [k \in 1 .. 5 |-> << 70, 100 >>] }

\* s2a.py lines 133-136, s2b.py lines 155-158: one call of
\* estimate_similarity_transform(src_pts, CANONICAL_5PT) returns.
EstimateCall ==
  /\ src_pts # << >> /\ est_M = << >>
  /\ \E ret \in EstimateAffinePartial2D(src_pts, CANONICAL_5PT) :
       est_M' = EstimateSimilarityTransform(ret)
  /\ UNCHANGED << src_pts, bboxVars, s1Vars, s3Vars, s2Vars, s4Vars >>

\* A call of estimate_similarity_transform with any of the inputs; no stage
\* is run.
InitEst ==
  /\ S1Off
  /\ cfg = "plain" /\ kind = [id \in Ids |-> "ok"] /\ S3Fresh
  /\ bbox_in = << >> /\ bbox_out = << >>
  /\ src_pts \in EstInputs /\ est_M = << >>
  /\ S2Off /\ S4Off

NextEst == EstimateCall
SpecEst == InitEst /\ [][NextEst]_vars

RawKinds == {"good", "unreadable", "oob", "nolm", "degenerate", "wide"}

\* Rows of the raw list_bbox_celeba.csv (x, y, w, h): one inside the canvas,
\* one of the CelebA file, in the space of the unaligned photograph.
RawBoxes == { << 10, 20, 100, 120 >>, << 95, 71, 226, 313 >> }

\* The transforms estimate_similarity_transform returns in the model: the
\* identity, a shift that carries a box half a pixel off the grid and past
\* the right edge of the canvas, and a shift by just above a pixel and a
\* half.
S2Transforms ==
  { << << SubPixel, 0, 0 >>, << 0, SubPixel, 0 >> >>,
    << << SubPixel, 0, 150 * SubPixel + SubPixel \div 2 >>, << 0, SubPixel, SubPixel \div 2 >> >>,
    << << SubPixel, 0, SubPixel + SubPixel \div 2 + 1 >>, << 0, SubPixel, 0 >> >> }

\* int(round(v)) of v = n / SubPixel >= 0: Python rounds a tie to the even
\* neighbour.
PyRound(n) ==
  LET q == n \div SubPixel
      r == n % SubPixel
  IN  IF 2 * r < SubPixel THEN q
      ELSE IF 2 * r > SubPixel THEN q + 1
      ELSE IF q % 2 = 0 THEN q ELSE q + 1

\* The S2 output files, as compared before and after a run.
S2FileState == [meta |-> s2meta, bbox |-> bboxCsv, aligned |-> aligned]

\* The first metadata file that the S1-pruned directory lacks.
FirstMissing == CHOOSE n \in DOMAIN MetaFiles :
  /\ MetaFiles[n] \notin prunedMeta
  /\ \A m \in 1 .. (n - 1) : MetaFiles[m] \in prunedMeta

S2HistStart ==
  /\ s2Snap' = S2FileState /\ estimated' = {} /\ ranS2A' = FALSE

\* stage.py lines 35-52, a source file is missing: the files before it in
\* the list have been copied (where the destination did not exist) when
\* SystemExit is raised.
S2MirrorAbort ==
  /\ s2pc = "idle" /\ prunedMeta # MetaSet
  /\ s2meta' = s2meta \cup { MetaFiles[m] : m \in 1 .. (FirstMissing - 1) }
  /\ s2Exit' = "structural"
  /\ S2HistStart
  /\ UNCHANGED << s3Vars, bboxVars, estVars, s1Vars, s4Vars, s2Input, bboxCsv, aligned, s2pc, s2i, df_bbox,
                  s2faults, s2bRuns >>

\* stage.py lines 35-52, every source file exists: each is copied unless its
\* destination exists already.
S2Mirror ==
  /\ s2pc = "idle" /\ prunedMeta = MetaSet
  /\ s2meta' = MetaSet
  /\ bboxCsv' = IF bboxCsv = << >> THEN raw_bbox ELSE bboxCsv
  /\ s2pc' = "detect" /\ s2Exit' = "none"
  /\ S2HistStart
  /\ UNCHANGED << s3Vars, bboxVars, estVars, s1Vars, s4Vars, s2Input, aligned, s2i, df_bbox, s2faults, s2bRuns >>

\* Mutant of S2DetectAligned: the images are aligned again although the
\* aligned directory exists.
S2DetectAlignedRealigns ==
  /\ s2pc = "detect" /\ aligned.exists
  /\ ranS2A' = TRUE
  /\ aligned' = [exists |-> TRUE, imgs |-> {}, part |-> {}]
  /\ s2pc' = "s2a" /\ s2i' = 1
  /\ UNCHANGED << s3Vars, bboxVars, estVars, s1Vars, s4Vars, s2Input, s2meta, bboxCsv, df_bbox, s2Exit,
                  s2faults, estimated, s2Snap, s2bRuns >>

\* Lines 63-64 and 84-92: the aligned directory exists, run_s2a is passed over.
S2DetectAligned ==
  /\ s2pc = "detect" /\ aligned.exists
  /\ s2pc' = "qc"
  /\ UNCHANGED << s3Vars, bboxVars, estVars, s1Vars, s4Vars, s2Input, s2Files, s2i, df_bbox, s2Exit,
                  s2faults, estimated, ranS2A, s2Snap, s2bRuns >>

\* Lines 66-67 and 92-97, s2a.py lines 83-100: only the raw directory
\* exists; run_s2a is invoked, creates the aligned directory and lists the
\* raw images.
S2DetectRaw ==
  /\ s2pc = "detect" /\ ~ aligned.exists /\ rawDir
  /\ ranS2A' = TRUE
  /\ aligned' = [exists |-> TRUE, imgs |-> {}, part |-> {}]
  /\ s2pc' = "s2a" /\ s2i' = 1
  /\ UNCHANGED << s3Vars, bboxVars, estVars, s1Vars, s4Vars, s2Input, s2meta, bboxCsv, df_bbox, s2Exit,
                  s2faults, estimated, s2Snap, s2bRuns >>

\* Lines 69 and 85-87: neither directory exists.
S2DetectNone ==
  /\ s2pc = "detect" /\ ~ aligned.exists /\ ~ rawDir
  /\ s2pc' = "idle" /\ s2Exit' = "structural"
  /\ UNCHANGED << s3Vars, bboxVars, estVars, s1Vars, s4Vars, s2Input, s2Files, s2i, df_bbox,
                  s2faults, estimated, ranS2A, s2Snap, s2bRuns >>

\* s2a.py lines 108-114: the source image cannot be read: continue.
S2AUnreadable ==
  /\ s2pc = "s2a" /\ s2i <= MaxIds /\ rec[s2i] = "unreadable"
  /\ s2i' = s2i + 1
  /\ UNCHANGED << s3Vars, bboxVars, estVars, s1Vars, s4Vars, s2Input, s2Files, s2pc, df_bbox, s2Exit,
                  s2faults, estimated, ranS2A, s2Snap, s2bRuns >>

\* s2a.py lines 120-124: no landmarks row: continue.
S2ANoLandmarks ==
  /\ s2pc = "s2a" /\ s2i <= MaxIds /\ rec[s2i] = "nolm"
  /\ s2i' = s2i + 1
  /\ UNCHANGED << s3Vars, bboxVars, estVars, s1Vars, s4Vars, s2Input, s2Files, s2pc, df_bbox, s2Exit,
                  s2faults, estimated, ranS2A, s2Snap, s2bRuns >>

\* s2a.py lines 127-131: a landmark outside the image: continue.
S2AOutOfBounds ==
  /\ s2pc = "s2a" /\ s2i <= MaxIds /\ rec[s2i] = "oob"
  /\ s2i' = s2i + 1
  /\ UNCHANGED << s3Vars, bboxVars, estVars, s1Vars, s4Vars, s2Input, s2Files, s2pc, df_bbox, s2Exit,
                  s2faults, estimated, ranS2A, s2Snap, s2bRuns >>

\* s2a.py lines 134-141: the estimation returns None: continue.
S2ATransformFails ==
  /\ s2pc = "s2a" /\ s2i <= MaxIds /\ rec[s2i] = "degenerate"
  /\ estimated' = estimated \cup { << "s2a", s2i >> }
  /\ s2i' = s2i + 1
  /\ UNCHANGED << s3Vars, bboxVars, estVars, s1Vars, s4Vars, s2Input, s2Files, s2pc, df_bbox, s2Exit,
                  s2faults, ranS2A, s2Snap, s2bRuns >>

\* s2a.py lines 134-155: the transform is estimated, the image warped, and
\* Image.save opens the output path of the same name and begins to write.
S2AAlign ==
  /\ s2pc = "s2a" /\ s2i <= MaxIds /\ rec[s2i] \in {"good", "wide"}
  /\ estimated' = estimated \cup { << "s2a", s2i >> }
  /\ aligned' = [aligned EXCEPT !.part = @ \cup { s2i }]
  /\ s2pc' = "s2a_save"
  /\ UNCHANGED << s3Vars, bboxVars, estVars, s1Vars, s4Vars, s2Input, s2meta, bboxCsv, s2i, df_bbox, s2Exit,
                  s2faults, ranS2A, s2Snap, s2bRuns >>

\* s2a.py lines 155-157: the image is written in full; next file.
S2ASaved ==
  /\ s2pc = "s2a_save"
  /\ aligned' = [aligned EXCEPT !.imgs = @ \cup { s2i }, !.part = @ \ { s2i }]
  /\ s2pc' = "s2a" /\ s2i' = s2i + 1
  /\ UNCHANGED << s3Vars, bboxVars, estVars, s1Vars, s4Vars, s2Input, s2meta, bboxCsv, df_bbox, s2Exit,
                  s2faults, estimated, ranS2A, s2Snap, s2bRuns >>

\* s2a.py lines 161-162, stage.py lines 98-99: run_s2a returns.
S2ADone ==
  /\ s2pc = "s2a" /\ s2i > MaxIds
  /\ s2pc' = "qc" /\ s2i' = 0
  /\ UNCHANGED << s3Vars, bboxVars, estVars, s1Vars, s4Vars, s2Input, s2Files, df_bbox, s2Exit,
                  s2faults, estimated, ranS2A, s2Snap, s2bRuns >>

\* The process is killed inside run_s2a, between two files or while an
\* image is being written.
S2Crash ==
  /\ s2pc \in {"s2a", "s2a_save"} /\ s2faults < MaxFaults
  /\ s2faults' = s2faults + 1
  /\ s2pc' = "idle" /\ s2i' = 0 /\ s2Exit' = "crash"
  /\ UNCHANGED << s3Vars, bboxVars, estVars, s1Vars, s4Vars, s2Input, s2Files, df_bbox,
                  estimated, ranS2A, s2Snap, s2bRuns >>

\* check_landmarks for one sampled image: the row exists and every landmark
\* of the (raw) CSV lies in [0, TARGET_SIZE) on both axes.
LandmarksInCanvas(id) == rec[id] \in {"good", "degenerate", "unreadable"}

\* check_bboxes for one row (bbox_checks.py lines 50-60).
BoxInCanvas(b) ==
  /\ 0 <= b[1] /\ b[1] < TARGET_SIZE /\ 0 <= b[2] /\ b[2] < TARGET_SIZE
  /\ ~ (b[1] + b[3] > TARGET_SIZE \/ b[2] + b[4] > TARGET_SIZE)

\* check_bboxes over the sample.
CheckBboxes(csv) == \A id \in aligned.imgs : BoxInCanvas(csv[id])

\* stage.py lines 114-117: the image directory holds no image.
S2NoImages ==
  /\ s2pc = "qc" /\ aligned.imgs \cup aligned.part = {}
  /\ s2pc' = "idle" /\ s2Exit' = "error"
  /\ UNCHANGED << s3Vars, bboxVars, estVars, s1Vars, s4Vars, s2Input, s2Files, s2i, df_bbox,
                  s2faults, estimated, ranS2A, s2Snap, s2bRuns >>

\* Lines 151-173, image_checks.py lines 24-28, landmark_checks.py lines
\* 31-35: a sampled image is a partly written file; the geometry check or,
\* if its header can still be read, the landmark check fails to read it.
S2ImageCheckFails ==
  /\ s2pc = "qc" /\ aligned.part # {}
  /\ s2pc' = "idle" /\ s2Exit' = "error"
  /\ UNCHANGED << s3Vars, bboxVars, estVars, s1Vars, s4Vars, s2Input, s2Files, s2i, df_bbox,
                  s2faults, estimated, ranS2A, s2Snap, s2bRuns >>

\* Lines 164-173: a sampled image has a landmark outside the aligned canvas.
S2LandmarkCheckFails ==
  /\ s2pc = "qc" /\ aligned.part = {} /\ aligned.imgs # {}
  /\ \E id \in aligned.imgs : ~ LandmarksInCanvas(id)
  /\ s2pc' = "idle" /\ s2Exit' = "error"
  /\ UNCHANGED << s3Vars, bboxVars, estVars, s1Vars, s4Vars, s2Input, s2Files, s2i, df_bbox,
                  s2faults, estimated, ranS2A, s2Snap, s2bRuns >>

\* Lines 178-186 and 214-215: the boxes are inside the canvas; the stage
\* completes.
S2BboxOk ==
  /\ s2pc = "qc" /\ aligned.part = {} /\ aligned.imgs # {}
  /\ \A id \in aligned.imgs : LandmarksInCanvas(id)
  /\ CheckBboxes(bboxCsv)
  /\ s2pc' = "idle" /\ s2Exit' = "ok"
  /\ UNCHANGED << s3Vars, bboxVars, estVars, s1Vars, s4Vars, s2Input, s2Files, s2i, df_bbox,
                  s2faults, estimated, ranS2A, s2Snap, s2bRuns >>

\* Mutant of ReadRawBboxCsv: run_s2b loads the bbox CSV of the S2 output
\* directory.
ReadOutBboxCsv == IF bboxCsv = << >> THEN raw_bbox ELSE bboxCsv

\* s2b.py lines 98-104: df_bbox = pd.read_csv(RAW_BBOX_CSV), the CSV of the
\* S1-pruned directory.
ReadRawBboxCsv == raw_bbox

\* The positions of the process inside run_s2b: called by stage.run, or run
\* on its own (s2b.py lines 185-186).
S2BPcs == {"s2b", "s2b_main"}

\* Lines 186-191, s2b.py lines 85-123: a sampled box is outside the canvas;
\* run_s2b is invoked and loads the raw bbox CSV.
S2BStart ==
  /\ s2pc = "qc" /\ aligned.part = {} /\ aligned.imgs # {}
  /\ \A id \in aligned.imgs : LandmarksInCanvas(id)
  /\ ~ CheckBboxes(bboxCsv)
  /\ df_bbox' = ReadRawBboxCsv
  /\ s2pc' = "s2b" /\ s2i' = 1
  /\ UNCHANGED << s3Vars, bboxVars, estVars, s1Vars, s4Vars, s2Input, s2Files, s2Exit,
                  s2faults, estimated, ranS2A, s2Snap, s2bRuns >>

\* s2b.py lines 85-91 and 185-186: run_s2b is run on its own and a raw CSV
\* is missing: SystemExit(1).
S2BMainAbort ==
  /\ s2pc = "idle"
  /\ ~ ({"list_bbox_celeba.csv", "list_landmarks_align_celeba.csv"} \subseteq prunedMeta)
  /\ s2Exit' = "structural"
  /\ S2HistStart
  /\ UNCHANGED << s3Vars, bboxVars, estVars, s1Vars, s4Vars, s2Input, s2Files, s2pc, s2i, df_bbox,
                  s2faults, s2bRuns >>

\* s2b.py lines 85-123 and 185-186: run_s2b is run on its own and loads the
\* raw bbox CSV.
S2BMain ==
  /\ s2pc = "idle"
  /\ {"list_bbox_celeba.csv", "list_landmarks_align_celeba.csv"} \subseteq prunedMeta
  /\ df_bbox' = ReadRawBboxCsv
  /\ s2pc' = "s2b_main" /\ s2i' = 1 /\ s2Exit' = "none"
  /\ S2HistStart
  /\ UNCHANGED << s3Vars, bboxVars, estVars, s1Vars, s4Vars, s2Input, s2Files, s2faults, s2bRuns >>

\* s2b.py lines 140-145: no landmarks row: continue; the row keeps its raw box.
S2BNoLandmarks ==
  /\ s2pc \in S2BPcs /\ s2i <= MaxIds /\ rec[s2i] = "nolm"
  /\ s2i' = s2i + 1
  /\ UNCHANGED << s3Vars, bboxVars, estVars, s1Vars, s4Vars, s2Input, s2Files, s2pc, df_bbox, s2Exit,
                  s2faults, estimated, ranS2A, s2Snap, s2bRuns >>

\* s2b.py lines 155-162: the estimation returns None: continue; the row
\* keeps its raw box.
S2BTransformFails ==
  /\ s2pc \in S2BPcs /\ s2i <= MaxIds /\ rec[s2i] = "degenerate"
  /\ estimated' = estimated \cup { << "s2b", s2i >> }
  /\ s2i' = s2i + 1
  /\ UNCHANGED << s3Vars, bboxVars, estVars, s1Vars, s4Vars, s2Input, s2Files, s2pc, df_bbox, s2Exit,
                  s2faults, ranS2A, s2Snap, s2bRuns >>

\* The four values written back for one row (s2b.py lines 165-171).
AlignedRow(M, b) ==
  LET t == TransformBbox(M, b[1], b[2], b[3], b[4])
  IN  << PyRound(t[1]), PyRound(t[2]), PyRound(t[3]), PyRound(t[4]) >>

\* The records run_s2b transforms: the landmarks row exists and a transform
\* is found (the image is not read, the landmarks are not compared with its
\* bounds).
S2BTransformable == {"good", "unreadable", "oob", "wide"}

\* s2b.py lines 139-173: the transform is estimated, the box transformed and
\* the rounded values stored.
S2BTransform ==
  /\ s2pc \in S2BPcs /\ s2i <= MaxIds /\ rec[s2i] \in S2BTransformable
  /\ \E M \in S2Transforms :
       df_bbox' = [df_bbox EXCEPT ![s2i] = AlignedRow(M, df_bbox[s2i])]
  /\ estimated' = estimated \cup { << "s2b", s2i >> }
  /\ s2i' = s2i + 1
  /\ UNCHANGED << s3Vars, bboxVars, estVars, s1Vars, s4Vars, s2Input, s2Files, s2pc, s2Exit,
                  s2faults, ranS2A, s2Snap, s2bRuns >>

\* s2b.py line 179: df_bbox.to_csv(OUT_BBOX_CSV); run_s2b returns, to
\* stage.run or to the shell.
S2BWrite ==
  /\ s2pc \in S2BPcs /\ s2i > MaxIds
  /\ bboxCsv' = df_bbox
  /\ s2meta' = s2meta \cup {"list_bbox_celeba.csv"}
  /\ s2pc' = IF s2pc = "s2b" THEN "recheck" ELSE "idle"
  /\ s2Exit' = IF s2pc = "s2b" THEN s2Exit ELSE "s2b_ok"
  /\ s2i' = 0 /\ df_bbox' = << >>
  /\ s2bRuns' = IF s2bRuns = 0 THEN 1 ELSE 2
  /\ UNCHANGED << s3Vars, bboxVars, estVars, s1Vars, s4Vars, s2Input, aligned,
                  s2faults, estimated, ranS2A, s2Snap >>

\* stage.py lines 194-215: the boxes are checked again; SystemExit(1) if the
\* check fails, else the stage completes.
S2Recheck ==
  /\ s2pc = "recheck"
  /\ s2pc' = "idle"
  /\ s2Exit' = IF CheckBboxes(bboxCsv) THEN "ok" ELSE "error"
  /\ UNCHANGED << s3Vars, bboxVars, estVars, s1Vars, s4Vars, s2Input, s2Files, s2i, df_bbox,
                  s2faults, estimated, ranS2A, s2Snap, s2bRuns >>

\* A fresh S2 output directory over any S1-pruned dataset; the later stages
\* are not run.
InitS2 ==
  /\ S1Off
  /\ cfg = "plain" /\ kind = [id \in Ids |-> "ok"] /\ S3Fresh
  /\ BboxOff /\ S4Off
  /\ rec \in [Ids -> RawKinds]
  /\ raw_bbox \in [Ids -> RawBoxes]
  /\ prunedMeta \in { MetaSet } \cup { MetaSet \ { f } : f \in MetaSet }
  /\ rawDir \in BOOLEAN
  /\ s2meta = {} /\ bboxCsv = << >>
  /\ aligned = [exists |-> FALSE, imgs |-> {}, part |-> {}]
  /\ s2pc = "idle" /\ s2i = 0 /\ df_bbox = << >> /\ s2Exit = "none" /\ s2faults = 0
  /\ estimated = {} /\ ranS2A = FALSE /\ s2Snap = << >> /\ s2bRuns = 0

NextS2 ==
  \/ S2MirrorAbort \/ S2Mirror
  \/ S2DetectAligned \/ S2DetectRaw \/ S2DetectNone
  \/ S2AUnreadable \/ S2ANoLandmarks \/ S2AOutOfBounds \/ S2ATransformFails
  \/ S2AAlign \/ S2ASaved \/ S2ADone \/ S2Crash
  \/ S2NoImages \/ S2ImageCheckFails \/ S2LandmarkCheckFails \/ S2BboxOk \/ S2BStart
  \/ S2BMainAbort \/ S2BMain
  \/ S2BNoLandmarks \/ S2BTransformFails \/ S2BTransform \/ S2BWrite \/ S2Recheck

\* The S2 stage and run_s2b run and re-run over one dataset.
SpecS2 == InitS2 /\ [][NextS2]_vars

(***************************************************************************)
(* Claims about the alignment stage.                                       *)
(***************************************************************************)
\* Exactly one id has a landmark outside its source image; every other id
\* has a readable image, a landmarks row inside the image and a transform.
OneOutOfBoundsRecord ==
  /\ Cardinality({ id \in Ids : rec[id] = "oob" }) = 1
  /\ \A id \in Ids : rec[id] \in {"oob", "good", "wide"}

\* C11 (out-of-bounds-landmark scenario), the S2 part: on a complete
\* S1-pruned dataset in which exactly one id has a landmark outside its
\* source image, the S2 run that aligns the images writes an aligned image
\* for every other id and none for that id, and terminates successfully.
C11_OobIdExcludedStageSucceeds ==
  (/\ prunedMeta = MetaSet /\ rawDir /\ OneOutOfBoundsRecord
   /\ ranS2A /\ s2pc = "idle" /\ s2Exit # "crash") =>
    /\ aligned.imgs = { id \in Ids : rec[id] # "oob" }
    /\ s2Exit = "ok"

\* C12 (landmark bounds precede every transform): in neither pass is a
\* transform estimated for a record with a landmark outside the bounds of
\* its source image.
C12_NoTransformForOutOfBounds ==
  \A e \in estimated : rec[e[2]] # "oob"

\* C13 (in-bounds box for every record): when run_s2b has written the
\* output bbox CSV, every row holds a box with its origin in
\* [0, TARGET_SIZE - 1] and origin + extent <= TARGET_SIZE, the rows whose
\* transform could not be computed included.
C13_EveryRowInCanvas ==
  s2pc = "recheck" => \A id \in Ids : BoxInCanvas(bboxCsv[id])

\* C14 (StructuralError leaves state unchanged), for the S2 stage: a run
\* that aborted because a required directory or metadata file is absent
\* has created or changed no file of the S2 output directory.
C14_StructuralAbortWritesNothing ==
  s2Exit = "structural" => S2FileState = s2Snap

\* C20 (alignment re-invocation is a no-op): in a run at whose start the
\* aligned directory existed, run_s2a is not invoked and the aligned
\* directory and its images stay what they were.
C20_RerunLeavesAligned ==
  (s2Snap # << >> /\ s2Snap.aligned.exists) =>
    (~ ranS2A /\ aligned = s2Snap.aligned)

\* C20's case: a run that found the aligned directory in place has
\* completed, the bbox CSV having been rewritten by an earlier run.
C20_Witness ==
  /\ s2Snap # << >> /\ s2Snap.aligned.exists
  /\ s2pc = "idle" /\ s2Exit = "ok"
  /\ aligned.imgs # {} /\ bboxCsv # raw_bbox

\* The required inputs of the stage are in place: the four metadata CSVs of
\* the S1-pruned directory and an image directory, aligned or raw.
S2InputsPresent == prunedMeta = MetaSet /\ (aligned.exists \/ rawDir)

\* C21 (alignment stage failure policy): a run of the stage that was not
\* preceded by any crash ends in failure only if a required directory or
\* metadata file is absent or no record was aligned; failures of single
\* records beside an aligned one do not fail the stage.
C21_FailsOnlyIfNoneAlignedOrStructural ==
  (s2pc = "idle" /\ s2faults = 0 /\ s2Exit \in {"error", "structural"}) =>
    (~ S2InputsPresent \/ aligned.imgs = {})

\* The records run_s2a aligns: the source image is readable, the landmarks
\* row exists and lies inside the image, and a transform is found.
Eligible == { id \in Ids : rec[id] \in {"good", "wide"} }

\* C26 (alignment pass is resumable): once run_s2a has been interrupted, a
\* later run of the stage that has come to its end has left a complete
\* aligned image for every eligible record.
C26_RerunCompletesAlignment ==
  (s2faults > 0 /\ s2pc = "idle" /\ s2Exit \in {"ok", "error"}) =>
    (Eligible \subseteq aligned.imgs /\ aligned.part = {})

\* C27 (bounding boxes are transformed at most once): once run_s2b has
\* written the output bbox CSV, whatever runs of the stage and of run_s2b
\* follow, each row of a record run_s2b transforms is one application of
\* _transform_bbox (with rounding) to the raw row of the S1-pruned CSV.
C27_TransformedOnce ==
  s2bRuns > 0 =>
    \A id \in Ids : rec[id] \in S2BTransformable =>
      \E M \in S2Transforms : bboxCsv[id] = AlignedRow(M, raw_bbox[id])

\* C27's case: run_s2b has run to its end twice over a record whose
\* transformed row differs from its raw row, and the stage has completed
\* after that.
C27_Witness ==
  /\ s2bRuns = 2 /\ s2pc = "idle" /\ s2Exit = "ok"
  /\ \E id \in Ids : rec[id] \in S2BTransformable /\ bboxCsv[id] # raw_bbox[id]

\* C28 (integer rounding preserves the bbox contract): once run_s2b has
\* written the output bbox CSV, the integers of every row it transformed
\* have the origin in [0, TARGET_SIZE - 1], an extent of at least 1 and
\* origin + extent <= TARGET_SIZE on both axes.
C28_RoundedRowInCanvas ==
  s2bRuns > 0 =>
    \A id \in Ids : rec[id] \in S2BTransformable =>
      LET b == bboxCsv[id]
      IN  /\ 0 <= b[1] /\ b[1] <= TARGET_SIZE - 1 /\ b[3] >= 1
          /\ b[1] + b[3] <= TARGET_SIZE
          /\ 0 <= b[2] /\ b[2] <= TARGET_SIZE - 1 /\ b[4] >= 1
          /\ b[2] + b[4] <= TARGET_SIZE

(***************************************************************************)
(* s4_gfpgan/stage.py (S4A) and s4_codeformer/stage.py (S4B).  The two     *)
(* stages differ in the fidelity sweep of S4B and in their output roots;   *)
(* one set of actions models both, the stage being an input of the         *)
(* behaviour: one restoration stage is run and re-run over the manifest.   *)
(* The model weights are installed (load_gfpgan / load_codeformer return   *)
(* a model).  What restoring an id meets, fixed for the whole behaviour:   *)
(*   "ok"       the degraded file loads, inference and save succeed        *)
(*   "noload"   the degraded file was removed after S3 wrote its manifest  *)
(*   "noinfer"  the model raises on the image                              *)
(*   "nosave"   img.save raises (output path not writable)                 *)
(***************************************************************************)
S4Kinds == {"ok", "noload", "noinfer", "nosave"}

\* The headers tried for the S3 manifest CSV: the required columns, one
\* more column, and each required column left out in turn.
ColumnSets ==
  { RequiredCols, RequiredCols \cup {"note"} } \cup { RequiredCols \ { c } : c \in RequiredCols }

\* The fidelity sweeps tried (w in tenths): the default [0.5], two values,
\* one value listed twice, and the empty list.
FidelityGrids == { << 5 >>, << 5, 7 >>, << 5, 5 >>, << >> }

\* Mutant of ReadManifestCsv: a header with any column beyond the required
\* ones is rejected as well.
ReadManifestCsvExact(file, columns) ==
  IF file.st = "none" THEN [ok |-> FALSE, rows |-> << >>]
  ELSE IF columns # RequiredCols THEN [ok |-> FALSE, rows |-> << >>]
  ELSE [ok |-> TRUE, rows |-> file.rows]

\* read_manifest_csv(path) of both stages: FileNotFoundError if the file is
\* absent, ValueError if required - set(df.columns) is not empty, else the
\* data frame with every row.
ReadManifestCsv(file, columns) ==
  IF file.st = "none" THEN [ok |-> FALSE, rows |-> << >>]
  ELSE IF RequiredCols \ columns # {} THEN [ok |-> FALSE, rows |-> << >>]
  ELSE [ok |-> TRUE, rows |-> file.rows]

\* load_image_rgb(path) returns an image: a regular file of more than zero
\* bytes that PIL decodes fully, of positive size.
Loadable(f) ==
  /\ f.st # "none" /\ ~ (f.bytes <= 0) /\ f.st = "full"
  /\ ~ (f.size[1] <= 0 \/ f.size[2] <= 0)

\* The keys of by_preset, in the order of their first row.
RECURSIVE Groups(_)
Groups(rows) ==
  IF rows = << >> THEN << >>
  ELSE LET rest == Groups(SubSeq(rows, 1, Len(rows) - 1))
           d == rows[Len(rows)].degradation
       IN  IF \E n \in DOMAIN rest : rest[n] = d THEN rest ELSE Append(rest, d)

\* by_preset[d]
RECURSIVE GroupRows(_, _)
GroupRows(rows, d) ==
  IF rows = << >> THEN << >>
  ELSE (IF Head(rows).degradation = d THEN << Head(rows) >> ELSE << >>)
       \o GroupRows(Tail(rows), d)

\* The fidelity values a method loops over; S4A has no sweep (0 stands for
\* its single pass).
WGridOf(m) == IF m = "gfpgan" THEN << 0 >> ELSE fidelity_grid
WGrid == WGridOf(method)

\* Mutant of RestoredPath: the fidelity directory is left out of the path.
RestoredPathFlat(m, preset, w, image_id) == << m, preset, 0, image_id >>

\* path_restored: <outputs_root>/<preset>/imgs/<id> in S4A,
\* <outputs_root>/<preset>/w_<w>/imgs/<id> in S4B.
RestoredPath(m, preset, w, image_id) == << m, preset, w, image_id >>

\* The item the loops are at.
CurGroup == Groups(df)[g]
CurRow == GroupRows(df, CurGroup)[ri]
CurW == WGrid[wi]
CurRestored == RestoredPath(method, CurGroup, CurW, CurRow.id)
AtItem == s4pc = "loop" /\ g <= Len(Groups(df))

\* The loop indices after the current item: next row, else next fidelity
\* value, else next preset.
NextItem ==
  IF ri < Len(GroupRows(df, CurGroup)) THEN << g, wi, ri + 1 >>
  ELSE IF wi < Len(WGrid) THEN << g, wi + 1, 1 >>
  ELSE << g + 1, 1, 1 >>

Advance == g' = NextItem[1] /\ wi' = NextItem[2] /\ ri' = NextItem[3]

S4ProcIdle ==
  /\ s4pc' = "idle" /\ df' = << >> /\ g' = 0 /\ wi' = 0 /\ ri' = 0
  /\ manifest_rows' = << >>
  /\ inferred' = FALSE /\ rewrote' = FALSE

\* Stage line 27 (S4A) / 25 (S4B): read_manifest_csv raises; the exception
\* ends the stage.
S4ReadFails ==
  /\ s4pc = "idle"
  /\ ~ ReadManifestCsv(manifest, cols).ok
  /\ s4Exit' = "read_error" /\ s4prev' = FALSE
  /\ UNCHANGED << s3Vars, bboxVars, estVars, s1Vars, s2Vars, s4Input, s4Files, s4Proc, s4faults,
                  inferred, rewrote >>

\* Lines 30-34 / 27-30: the manifest has no rows: SystemExit(1).
S4EmptyManifest ==
  /\ s4pc = "idle"
  /\ ReadManifestCsv(manifest, cols).ok
  /\ Len(ReadManifestCsv(manifest, cols).rows) = 0
  /\ s4Exit' = "error" /\ s4prev' = FALSE
  /\ UNCHANGED << s3Vars, bboxVars, estVars, s1Vars, s2Vars, s4Input, s4Files, s4Proc, s4faults,
                  inferred, rewrote >>

\* Lines 26-72 / 24-79: the manifest is read, the output roots are created,
\* the model is loaded, the rows are grouped by preset.
S4Start ==
  /\ s4pc = "idle"
  /\ ReadManifestCsv(manifest, cols).ok
  /\ Len(ReadManifestCsv(manifest, cols).rows) > 0
  /\ g' = IF Len(WGrid) = 0
            THEN Len(Groups(ReadManifestCsv(manifest, cols).rows)) + 1
            ELSE 1
  /\ df' = ReadManifestCsv(manifest, cols).rows
  /\ s4pc' = "loop" /\ wi' = 1 /\ ri' = 1 /\ manifest_rows' = << >>
  /\ s4Exit' = "none"
  /\ UNCHANGED << s3Vars, bboxVars, estVars, s1Vars, s2Vars, s4Input, s4Files, s4faults, s4Hist >>

\* Lines 93-97 / 102-106: load_image_rgb raises: continue.
S4LoadFail ==
  /\ AtItem /\ ~ Loadable(out[CurRow.path_deg])
  /\ Advance
  /\ UNCHANGED << s3Vars, bboxVars, estVars, s1Vars, s2Vars, s4Input, s4Files, s4pc, df,
                  manifest_rows, s4Exit, s4faults, s4Hist >>

\* Lines 100-104 / 109-113: the model raises: continue.
S4InferFail ==
  /\ AtItem /\ Loadable(out[CurRow.path_deg]) /\ s4kind[CurRow.id.id] = "noinfer"
  /\ inferred' = TRUE
  /\ Advance
  /\ UNCHANGED << s3Vars, bboxVars, estVars, s1Vars, s2Vars, s4Input, s4Files, s4pc, df,
                  manifest_rows, s4Exit, s4faults, rewrote, s4prev >>

\* Lines 107-112 / 116-121: the image is restored, img.save cannot open
\* path_restored and raises: continue.
S4SaveFail ==
  /\ AtItem /\ Loadable(out[CurRow.path_deg]) /\ s4kind[CurRow.id.id] = "nosave"
  /\ inferred' = TRUE
  /\ Advance
  /\ UNCHANGED << s3Vars, bboxVars, estVars, s1Vars, s2Vars, s4Input, s4Files, s4pc, df,
                  manifest_rows, s4Exit, s4faults, rewrote, s4prev >>

\* Lines 100-109 / 109-118, io.py save_image_jpeg: the image is restored and
\* img.save opens path_restored itself for writing.
S4Infer ==
  /\ AtItem /\ Loadable(out[CurRow.path_deg])
  /\ s4kind[CurRow.id.id] \in {"ok", "noload"}
  /\ inferred' = TRUE
  /\ restored' = (CurRestored :> "part") @@ restored
  /\ s4pc' = "save"
  /\ UNCHANGED << s3Vars, bboxVars, estVars, s1Vars, s2Vars, s4Input, s4man, df, g, wi, ri,
                  manifest_rows, s4Exit, s4faults, rewrote, s4prev >>

\* The manifest row of the item just saved (lines 115-127 / 124-137).
RestoredRow ==
  [ method |-> method, id |-> CurRow.id, path_gt |-> CurRow.path_gt,
    path_deg |-> CurRow.path_deg, path_restored |-> CurRestored,
    degradation |-> CurGroup, split |-> CurRow.split, w |-> CurW ]

\* img.save completes; the row is appended (lines 115-129 / 124-139).
S4Save ==
  /\ s4pc = "save"
  /\ restored' = (CurRestored :> "full") @@ restored
  /\ rewrote' = TRUE
  /\ manifest_rows' = Append(manifest_rows, RestoredRow)
  /\ s4pc' = "loop"
  /\ Advance
  /\ UNCHANGED << s3Vars, bboxVars, estVars, s1Vars, s2Vars, s4Input, s4man, df,
                  s4Exit, s4faults, inferred, s4prev >>

\* Lines 142-144 / 152-154: no row was produced: SystemExit(1).
S4NoOutputs ==
  /\ s4pc = "loop" /\ g > Len(Groups(df)) /\ manifest_rows = << >>
  /\ s4Exit' = "error" /\ s4prev' = FALSE
  /\ S4ProcIdle
  /\ UNCHANGED << s3Vars, bboxVars, estVars, s1Vars, s2Vars, s4Input, s4Files, s4faults >>

\* Line 157 / 168, first part: to_csv opens the manifest path for writing,
\* which empties the file that was there.
S4ManifestOpen ==
  /\ s4pc = "loop" /\ g > Len(Groups(df)) /\ manifest_rows # << >>
  /\ s4man' = [s4man EXCEPT ![method] = [st |-> "part", rows |-> << >>]]
  /\ s4pc' = "manifest_write"
  /\ UNCHANGED << s3Vars, bboxVars, estVars, s1Vars, s2Vars, s4Input, restored, df, g, wi, ri,
                  manifest_rows, s4Exit, s4faults, s4Hist >>

\* Line 157 / 168, second part: every row is written, the file closed.
S4ManifestWrite ==
  /\ s4pc = "manifest_write"
  /\ s4man' = [s4man EXCEPT ![method] = [st |-> "full", rows |-> manifest_rows]]
  /\ s4pc' = "sanity"
  /\ UNCHANGED << s3Vars, bboxVars, estVars, s1Vars, s2Vars, s4Input, restored, df, g, wi, ri,
                  manifest_rows, s4Exit, s4faults, s4Hist >>

\* count_existing(restored_paths) == len(restored_paths)
S4SanityOk ==
  \A n \in DOMAIN manifest_rows : manifest_rows[n].path_restored \in DOMAIN restored

\* Lines 161-175 / 174-185: the sanity check; SystemExit(1) on a mismatch,
\* else the stage returns.
S4Sanity ==
  /\ s4pc = "sanity"
  /\ s4Exit' = IF S4SanityOk THEN "ok" ELSE "error"
  /\ s4prev' = S4SanityOk
  /\ S4ProcIdle
  /\ UNCHANGED << s3Vars, bboxVars, estVars, s1Vars, s2Vars, s4Input, s4Files, s4faults >>

\* The process is killed between two steps.
S4Crash ==
  /\ s4pc # "idle" /\ s4faults < MaxFaults
  /\ s4faults' = s4faults + 1
  /\ s4Exit' = "crash" /\ s4prev' = FALSE
  /\ S4ProcIdle
  /\ UNCHANGED << s3Vars, bboxVars, estVars, s1Vars, s2Vars, s4Input, s4Files >>

\* The rows S3 records for the presets from number p on when every id has a
\* Valid output (stage.py lines 173-185, once per preset).
RECURSIVE S3RowsFrom(_)
S3RowsFrom(p) ==
  IF p > Len(Presets) THEN << >>
  ELSE RowsOf(PresetName(Presets[p], p), KeyList({ ImgKey(id) : id \in Ids }, 1))
       \o S3RowsFrom(p + 1)

\* The output tree S3 leaves when every id is built, less the degraded
\* files removed since.
S3OutputTree ==
  [ s \in Slots(cfg) |->
      IF s[2].t = "img" /\ s4kind[s[2].id] # "noload"
        THEN ApplyDegradation(s[2].id,
               Presets[CHOOSE p \in DOMAIN Presets : PresetName(Presets[p], p) = s[1]],
               OutputSize, 0)
        ELSE NoFile ]

\* S3 has completed (or was never run, or recorded no row); one of S4A and
\* S4B is run and re-run over its manifest.
InitS4 ==
  /\ S1Off
  /\ cfg \in {"plain", "noise", "dup"}
  /\ kind = [id \in Ids |-> "ok"]
  /\ s4kind \in [Ids -> S4Kinds]
  /\ out = S3OutputTree
  /\ manifest \in { NoManifest, [st |-> "full", rows |-> << >>],
                    [st |-> "full", rows |-> S3RowsFrom(1)] }
  /\ manifestTmp = NoManifest
  /\ pc = "idle" /\ pidx = 0 /\ to_build = {} /\ i = 0
  /\ img_lq = NoFile /\ all_rows = << >> /\ rng = 0
  /\ lastExit = "none" /\ faults = 0
  /\ tbLog = << >> /\ attempted = {} /\ applied = {} /\ saved = {}
  /\ written = {} /\ snap = << >> /\ snapManifest = << >>
  /\ prevClean = FALSE /\ dmg = << >> /\ produced = {}
  /\ BboxOff /\ S2Off
  /\ cols \in ColumnSets
  /\ method \in Methods
  /\ fidelity_grid \in IF method = "gfpgan" THEN { << 5 >> } ELSE FidelityGrids
  /\ restored = << >>
  /\ s4man = [m \in Methods |-> NoManifest]
  /\ s4pc = "idle" /\ df = << >> /\ g = 0 /\ wi = 0 /\ ri = 0
  /\ manifest_rows = << >> /\ s4Exit = "none" /\ s4faults = 0
  /\ inferred = FALSE /\ rewrote = FALSE /\ s4prev = FALSE

NextS4 ==
  \/ S4ReadFails \/ S4EmptyManifest \/ S4Start
  \/ S4LoadFail \/ S4InferFail \/ S4SaveFail \/ S4Infer \/ S4Save
  \/ S4NoOutputs \/ S4ManifestOpen \/ S4ManifestWrite \/ S4Sanity
  \/ S4Crash

SpecS4 == InitS4 /\ [][NextS4]_vars


(***************************************************************************)
(* Claims about the restoration stages.                                    *)
(***************************************************************************)

\* C15 (as stated; violated): each stage that writes a manifest writes it to
\* a temporary file and renames it, so whenever no stage process runs (in
\* particular after a crash) the manifest path of S4A and of S4B holds a
\* complete manifest or none, never a partially written one.  S3 does so
\* (C4_FinalPathAtomic's ground); S4A and S4B call to_csv on the manifest
\* path itself, so a crash between S4ManifestOpen and S4ManifestWrite leaves
\* a truncated file where the previous manifest was.
C15_ManifestNeverPartial ==
  s4pc = "idle" => \A m \in Methods : s4man[m].st # "part"

\* Every item of the manifest can be restored: no per-item failure.
S4NoItemFails == \A id \in Ids : s4kind[id] = "ok"

\* C16 (as stated; violated): S4A and S4B rebuild only Missing or Corrupt
\* restored outputs, so a run that directly follows a run that ended ok
\* with every item restored, over the same S3 manifest and the same
\* restored outputs, calls the model zero times and writes zero restored
\* images.  Neither stage looks at existing outputs: every run infers and
\* writes every item again.
C16_SecondRunDoesNoWork ==
  (s4pc # "idle" /\ s4prev /\ S4NoItemFails) => (~ inferred /\ ~ rewrote)

\* C17: read_manifest_csv of an existing CSV fails with an error whenever a
\* required column is absent from the header, and succeeds with every row
\* whenever all required columns are present, whatever other columns there
\* are: from an idle stage with a manifest file, a step ends the stage with
\* the read error in the first case, and in the second never does and, when
\* the stage goes on, holds every row of the file in df.
C17_ReadSchemaCheck ==
  [][ (s4pc = "idle" /\ manifest.st # "none") =>
        IF RequiredCols \subseteq cols
          THEN /\ s4Exit' # "read_error"
               /\ s4pc' = "loop" => df' = manifest.rows
               /\ manifest.rows # << >> => s4pc' = "loop"
          ELSE s4Exit' = "read_error" /\ s4pc' = "idle" ]_vars

\* C17's case: a manifest with a column beyond the required ones was read
\* and all its rows are being processed.
C17_Witness ==
  /\ s4pc = "loop" /\ "note" \in cols /\ RequiredCols \subseteq cols
  /\ df = manifest.rows /\ Len(df) >= 2

\* The (row of the S3 manifest, fidelity value) pairs of the sweep, and the
\* ones restored successfully: the degraded file loads, the model and the
\* save do not raise.
SweepItems == (DOMAIN df) \X (DOMAIN fidelity_grid)
Restorable(n) == Loadable(out[df[n].path_deg]) /\ s4kind[df[n].id.id] = "ok"

\* The rows of the written CodeFormer manifest for item << n, k >>.
SweepRowsOf(n, k) ==
  { r \in DOMAIN s4man["codeformer"].rows :
      /\ s4man["codeformer"].rows[r].id = df[n].id
      /\ s4man["codeformer"].rows[r].degradation = df[n].degradation
      /\ s4man["codeformer"].rows[r].w = fidelity_grid[k] }

\* One row per successfully restored (id, degradation, w), the product row
\* count without failures, distinct path_restored.
SweepFanOut ==
  /\ s4man["codeformer"].st = "full"
  /\ \A it \in SweepItems :
       Cardinality(SweepRowsOf(it[1], it[2])) = IF Restorable(it[1]) THEN 1 ELSE 0
  /\ \A r \in DOMAIN s4man["codeformer"].rows :
       \E it \in SweepItems : r \in SweepRowsOf(it[1], it[2])
  /\ S4NoItemFails =>
       Len(s4man["codeformer"].rows) = Len(df) * Len(fidelity_grid)
  /\ \A a, b \in DOMAIN s4man["codeformer"].rows :
       a # b => s4man["codeformer"].rows[a].path_restored
                  # s4man["codeformer"].rows[b].path_restored

\* The S3 manifest names every (id, degradation) once; the sweep lists
\* every fidelity value once.
S3RowsDistinct ==
  \A a, b \in DOMAIN df :
    a # b => << df[a].id, df[a].degradation >> # << df[b].id, df[b].degradation >>
GridDistinct ==
  \A a, b \in DOMAIN fidelity_grid : a # b => fidelity_grid[a] # fidelity_grid[b]

\* C18 (as stated; violated): once S4B has written its manifest, it has
\* exactly one row per (id, degradation, w) restored successfully, its row
\* count without per-item failures is (S3 rows) x (fidelity values), and the
\* path_restored of its rows are pairwise distinct.  A sweep that lists a
\* value twice, or an S3 manifest with two rows of one (id, degradation),
\* gives two rows with the same key and the same path_restored.
C18_FanOutAnySweep ==
  (s4pc = "sanity" /\ method = "codeformer") => SweepFanOut

\* C18 (amended): the same, for a sweep whose fidelity values are pairwise
\* different over an S3 manifest whose (id, degradation) pairs are pairwise
\* different.
C18_FanOutDistinctSweep ==
  (s4pc = "sanity" /\ method = "codeformer" /\ S3RowsDistinct /\ GridDistinct)
    => SweepFanOut

\* C18's case: a sweep of two fidelity values over a manifest of several
\* rows, every item restored, the CodeFormer manifest written.
C18_Witness ==
  /\ s4pc = "sanity" /\ method = "codeformer"
  /\ Len(fidelity_grid) = 2 /\ GridDistinct /\ S3RowsDistinct
  /\ Len(df) >= 2 /\ S4NoItemFails
  /\ Len(s4man["codeformer"].rows) = 2 * Len(df)

====
